---- MODULE Spec2Model ----
(***************************************************************************)
(* FinnTrack: the per-race live-state Durable Object (src/src/raceState.ts)*)
(* as a state machine.  One RaceState object is modelled: its in-memory    *)
(* roster, latest-telemetry cache and socket set, its durable storage      *)
(* entry, the shared KV race index, and the fetch() calls in flight, each  *)
(* suspended at one of the awaits of the handler.                          *)
(*                                                                         *)
(* JavaScript values that reach the handler from a JSON body are modelled  *)
(* as tagged records (JsNum, JsStr, JsNull, JsInf, JsUndef) so that the    *)
(* conversions Number(), String(), truthiness and ?? behave as in the code.*)
(* A Map is a sequence of <<key, value>> pairs with distinct keys, in      *)
(* insertion order, which is what Array.from(map.entries()) and            *)
(* new Map(list) convert between.                                          *)
(***************************************************************************)
EXTENDS Integers, Sequences, FiniteSets, TLC

(***************************************************************************)
(* Bounds of the model.                                                    *)
(***************************************************************************)
MaxReqs == 2        \* fetch() calls that can be in flight at once
MaxCalls == 3       \* fetch() calls issued in one behaviour
MaxSubs == 2        \* sockets ever opened in one behaviour
MaxTicks == 1       \* clock advances in one behaviour
MaxEvicts == 2      \* evictions of the object in one behaviour
StartMs == 1000000  \* Date.now() at the start (any instant after LIVE_MS)
MaxTracks == 2      \* /track calls that can be in flight at once
MaxTrackCalls == 3  \* /track calls issued in one behaviour
MaxGw == 2          \* requests in flight behind the gateway at once
MaxGwCalls == 3     \* requests to the gateway in one behaviour
MaxSocks == 3       \* WebSockets of the live page that exist at once
MaxLoads == 3       \* loadRace() calls of the live page in one behaviour
MaxDrops == 1       \* sockets the server closes in one behaviour

(***************************************************************************)
(* Program constants.                                                      *)
(***************************************************************************)
LIVE_MS == 120000

(***************************************************************************)
(* JavaScript values.                                                      *)
(***************************************************************************)
JsUndef == [k |-> "undef", n |-> 0, s |-> ""]
JsNull == [k |-> "null", n |-> 0, s |-> ""]
JsNaN == [k |-> "nan", n |-> 0, s |-> ""]
JsInf == [k |-> "inf", n |-> 0, s |-> ""]
JsNum(x) == [k |-> "num", n |-> x, s |-> ""]
JsStr(x) == [k |-> "str", n |-> 0, s |-> x]

\* The numeric strings and decimal renderings the model's inputs use.
NumericStrings == {<<"", 0>>, <<"10", 10>>, <<"7", 7>>}

\* Number(v): a number, Infinity or NaN.
ToNumber(v) ==
  CASE v.k = "num" -> v
    [] v.k = "inf" -> JsInf
    [] v.k = "null" -> JsNum(0)
    [] v.k = "str" ->
         IF \E p \in NumericStrings : p[1] = v.s
         THEN JsNum((CHOOSE p \in NumericStrings : p[1] = v.s)[2])
         ELSE JsNaN
    [] OTHER -> JsNaN

\* v is truthy in a JavaScript condition, `v || x` or `v ? a : b`.
Truthy(v) ==
  CASE v.k = "num" -> v.n # 0
    [] v.k = "str" -> v.s # ""
    [] v.k = "inf" -> TRUE
    [] OTHER -> FALSE

\* String(v) for a string or a number the inputs use.
ToStr(v) ==
  CASE v.k = "str" -> v.s
    [] v.k = "num" ->
         IF \E p \in NumericStrings : p[2] = v.n /\ p[1] # ""
         THEN (CHOOSE p \in NumericStrings : p[2] = v.n /\ p[1] # "")[1]
         ELSE "0"
    [] v.k = "inf" -> "Infinity"
    [] v.k = "null" -> "null"
    [] v.k = "nan" -> "NaN"
    [] OTHER -> "undefined"

\* String(v || "")
StrOrEmpty(v) == IF Truthy(v) THEN ToStr(v) ELSE ""

\* a ?? b
Nullish(a, b) == IF a.k \in {"undef", "null"} THEN b ELSE a

\* safeNum: Number(v) when finite, else undefined.
safeNum(v) ==
  LET n == ToNumber(v) IN IF n.k = "num" THEN n ELSE JsUndef

\* mustHaveTelemetryFields without the check of lon.
mustHaveTelemetryFieldsNoLon(body) ==
  LET boatId == StrOrEmpty(body.boatId)
      lat == safeNum(body.lat)
  IN  IF boatId = "" THEN "Missing boatId"
      ELSE IF lat = JsUndef THEN "Missing lat"
      ELSE ""

\* mustHaveTelemetryFields: "" when ok, else the message.
mustHaveTelemetryFields(body) ==
  LET boatId == StrOrEmpty(body.boatId)
      lat == safeNum(body.lat)
      lon == safeNum(body.lon)
  IN  IF boatId = "" THEN "Missing boatId"
      ELSE IF lat = JsUndef THEN "Missing lat"
      ELSE IF lon = JsUndef THEN "Missing lon"
      ELSE ""

(***************************************************************************)
(* Map<string, V> as a sequence of <<key, value>> pairs.                   *)
(***************************************************************************)
MapKeys(m) == {m[i][1] : i \in 1..Len(m)}
MapHas(m, key) == key \in MapKeys(m)
MapGet(m, key) == m[CHOOSE i \in 1..Len(m) : m[i][1] = key][2]
MapSet(m, key, v) ==
  IF MapHas(m, key)
  THEN [i \in 1..Len(m) |-> IF m[i][1] = key THEN <<key, v>> ELSE m[i]]
  ELSE Append(m, <<key, v>>)

\* new Map(list): the entries inserted in list order.
RECURSIVE MapFromEntries(_)
MapFromEntries(list) ==
  IF list = <<>> THEN <<>>
  ELSE LET n == Len(list)
       IN  MapSet(MapFromEntries(SubSeq(list, 1, n - 1)), list[n][1], list[n][2])

\* Array.from(map.entries())
MapEntries(m) == m

(***************************************************************************)
(* Request bodies.  bad: the text is not JSON.  A field the JSON text does *)
(* not carry is JsUndef; an empty text parses to the object with no field. *)
(***************************************************************************)
NoBody ==
  [bad |-> FALSE, raceId |-> JsUndef, boatId |-> JsUndef, boatName |-> JsUndef,
   nation |-> JsUndef, lat |-> JsUndef, lon |-> JsUndef, t |-> JsUndef,
   sog |-> JsUndef, speed |-> JsUndef, cog |-> JsUndef, course |-> JsUndef,
   heading |-> JsUndef, heel |-> JsUndef]

BadJson == [NoBody EXCEPT !.bad = TRUE]

Rec(race, boat, lat, lon) ==
  [NoBody EXCEPT !.raceId = race, !.boatId = boat, !.lat = lat, !.lon = lon]

ValidUpdateBodies ==
  { [Rec(JsStr("r1"), JsStr("a"), JsNum(10), JsNum(20)) EXCEPT
       !.t = JsNum(StartMs - 1000), !.sog = JsNum(5), !.cog = JsNum(90),
       !.heading = JsNum(45), !.heel = JsNum(12)],
    [Rec(JsStr("r1"), JsStr("a"), JsNum(11), JsNum(21)) EXCEPT
       !.sog = JsNum(6), !.cog = JsNum(180)],
    [Rec(JsStr("r2"), JsStr("b"), JsStr("10"), JsNum(200)) EXCEPT
       !.t = JsNum(0), !.speed = JsNum(7), !.course = JsStr("7"),
       !.boatName = JsStr("Bee"), !.nation = JsStr("FIN")] }

InvalidUpdateBodies ==
  { BadJson,
    Rec(JsUndef, JsStr("a"), JsNum(10), JsNum(20)),
    Rec(JsStr("r1"), JsStr(""), JsNum(10), JsNum(20)),
    Rec(JsStr("r1"), JsStr("a"), JsStr("x"), JsNum(20)),
    Rec(JsStr("r1"), JsStr("a"), JsNum(10), JsInf) }

UpdateBodies == ValidUpdateBodies \cup InvalidUpdateBodies

ValidJoinBodies ==
  { [Rec(JsStr("r1"), JsStr("a"), JsUndef, JsUndef) EXCEPT
       !.boatName = JsStr("Alpha"), !.nation = JsStr("AUS")],
    Rec(JsStr("r2"), JsStr("b"), JsUndef, JsUndef) }

InvalidJoinBodies ==
  { BadJson, NoBody, Rec(JsStr("r1"), JsUndef, JsUndef, JsUndef) }

JoinBodies == ValidJoinBodies \cup InvalidJoinBodies

(***************************************************************************)
(* View generation.                                                        *)
(***************************************************************************)
\* live with the window's end excluded.
IsLiveStrict(lastSeen, t) == IF Truthy(lastSeen) THEN (t - lastSeen.n) < LIVE_MS ELSE FALSE

\* live = lastSeen ? (t - lastSeen) <= LIVE_MS : false
IsLive(lastSeen, t) == IF Truthy(lastSeen) THEN (t - lastSeen.n) <= LIVE_MS ELSE FALSE

\* ViewOf with the longitude taken from the latitude.
ViewOfLatForLng(entry, hasTelem, telem, t) ==
  LET lastSeen == Nullish(entry.lastSeen, IF hasTelem THEN telem.t ELSE JsUndef)
  IN  [boatId |-> entry.boatId,
       boatName |-> entry.boatName,
       nation |-> entry.nation,
       joinedAt |-> entry.joinedAt,
       live |-> IF Truthy(lastSeen) THEN (t - lastSeen.n) <= LIVE_MS ELSE FALSE,
       lastSeen |-> lastSeen,
       lat |-> IF hasTelem THEN telem.lat ELSE JsUndef,
       lng |-> IF hasTelem THEN telem.lat ELSE JsUndef,
       speed |-> IF hasTelem THEN telem.sog ELSE JsUndef,
       heading |-> IF hasTelem THEN Nullish(telem.heading, telem.cog) ELSE JsUndef,
       timestamp |-> IF hasTelem THEN telem.t ELSE JsUndef]

\* One entry of boatsView(): roster entry merged with its telemetry, if any.
ViewOf(entry, hasTelem, telem, t) ==
  LET lastSeen == Nullish(entry.lastSeen, IF hasTelem THEN telem.t ELSE JsUndef)
  IN  [boatId |-> entry.boatId,
       boatName |-> entry.boatName,
       nation |-> entry.nation,
       joinedAt |-> entry.joinedAt,
       live |-> IsLive(lastSeen, t),
       lastSeen |-> lastSeen,
       lat |-> IF hasTelem THEN telem.lat ELSE JsUndef,
       lng |-> IF hasTelem THEN telem.lon ELSE JsUndef,
       speed |-> IF hasTelem THEN telem.sog ELSE JsUndef,
       heading |-> IF hasTelem THEN Nullish(telem.heading, telem.cog) ELSE JsUndef,
       timestamp |-> IF hasTelem THEN telem.t ELSE JsUndef]

\* boatsView() that lists only the boats with a cached sample.
boatsViewReportedOnly(ros, lat, t) ==
  [b \in MapKeys(ros) \cap MapKeys(lat) |->
     ViewOf(MapGet(ros, b), TRUE, MapGet(lat, b), t)]

\* boatsView(): one view per roster entry, keyed by boatId.
boatsView(ros, lat, t) ==
  [b \in MapKeys(ros) |->
     ViewOf(MapGet(ros, b), MapHas(lat, b),
            IF MapHas(lat, b) THEN MapGet(lat, b) ELSE JsUndef, t)]

\* The boat names of the model in the order of String.prototype.localeCompare
\* (letters first, a shorter name before its extensions, case last).
Collation == <<"a", "Alpha", "b", "Bee">>

\* a.localeCompare(b): negative, 0 or positive.
localeCompare(a, b) ==
  LET ra == CHOOSE i \in 1..Len(Collation) : Collation[i] = a
      rb == CHOOSE i \in 1..Len(Collation) : Collation[i] = b
  IN  ra - rb

\* The comparator that puts the stale boats first.
compareBoatsStaleFirst(a, b) ==
  IF a.live # b.live THEN (IF a.live THEN 1 ELSE -1)
  ELSE localeCompare(a.boatName, b.boatName)

\* The comparator of boatsViewArray(): live first, then by boatName.
compareBoats(a, b) ==
  IF a.live # b.live THEN (IF a.live THEN -1 ELSE 1)
  ELSE localeCompare(a.boatName, b.boatName)

\* Array.prototype.sort is stable: x, which came after the members of the
\* sorted list s, goes before the first member it is less than.
RECURSIVE SortInsert(_, _)
SortInsert(x, s) ==
  IF s = <<>> THEN <<x>>
  ELSE IF compareBoats(x, Head(s)) < 0 THEN <<x>> \o s
  ELSE <<Head(s)>> \o SortInsert(x, Tail(s))

RECURSIVE ArraySort(_)
ArraySort(arr) ==
  IF arr = <<>> THEN <<>>
  ELSE SortInsert(arr[Len(arr)], ArraySort(SubSeq(arr, 1, Len(arr) - 1)))

\* boatsViewArray(): Object.values(boatsView()) in the order the keys were
\* set, which is the roster's, then sorted.
boatsViewArray(ros, lat, t) ==
  ArraySort([i \in 1..Len(ros) |-> boatsView(ros, lat, t)[ros[i][1]]])

(***************************************************************************)
(* State.                                                                  *)
(***************************************************************************)
VARIABLES
  now,      \* Date.now()
  ticks,    \* clock advances so far
  loaded,   \* RaceState.loaded
  roster,   \* RaceState.roster : Map<boatId, BoatRosterEntry>
  latest,   \* RaceState.latest : Map<boatId, Telemetry>
  sockets,  \* RaceState.sockets : the server ends registered
  broken,   \* sockets whose peer is gone: send() on them throws
  inbox,    \* per socket, the messages its client has received, each with
            \* the number of the mutation that caused it (0: the initial one)
  subs,     \* sockets opened so far; regM[s]: mutations applied before s registered
  regM,
  storage,  \* state.storage: the value under STORAGE_KEY, if any
  kv,       \* env.HISTORY "races:index": the list of raceIds
  req,      \* the fetch() calls in flight, each at one of its awaits
  calls,    \* fetch() calls issued so far
  evicts,   \* evictions so far
  mlog,     \* history: per applied mutation, its kind, boat and outcome, the
            \* sockets its broadcast deleted and the boatsCount a join answered
  last,     \* history: the status of the call that returned last
  log,      \* the track_points table: its rows in storage order
  rq,       \* the /replay call in progress
  hist,     \* history: the /replay calls that returned, with their responses
  keyed,    \* track_points has the unique key (raceId, boatId, t)
  tn,       \* /track calls issued so far
  tk,       \* the /track calls in flight, each at its write
  th,       \* history: the /track calls that were answered, with their rows
  ch,       \* per race, its RaceState object: roster, latest, sockets, storage
  gq,       \* the requests in flight behind the gateway, each at one of its awaits
  gn,       \* requests that reached the gateway so far
  gh,       \* history: the answers the gateway gave
  ot,       \* the OwnTracks report being handled, from the adapter to the snapshot
  cl        \* the live page: its sockets, ws, reconnect timer and loads

raceVars == <<now, ticks, loaded, roster, latest, sockets, broken, inbox, subs, regM,
              storage, kv, req, calls, evicts, mlog, last>>

replayVars == <<log, rq, hist>>

trackVars == <<keyed, tn, tk, th>>

gateVars == <<ch, gq, gn, gh>>

raceVarsButKv == <<now, ticks, loaded, roster, latest, sockets, broken, inbox, subs, regM,
                   storage, req, calls, evicts, mlog, last>>

vars == <<now, ticks, loaded, roster, latest, sockets, broken, inbox, subs, regM,
          storage, kv, req, calls, evicts, mlog, last, log, rq, hist, keyed, tn, tk, th,
          ch, gq, gn, gh, ot, cl>>

Reqs == 1..MaxReqs
Subs == 1..MaxSubs
\* The clock advances the model takes: the live window first, then seconds.
TickStep(n) == IF n = 0 THEN LIVE_MS ELSE 1000

IdleSlot ==
  [pc |-> "idle", kind |-> "", upgrade |-> FALSE, body |-> NoBody, arr |-> <<>>,
   payload |-> [roster |-> <<>>, latest |-> <<>>], view |-> JsUndef, m |-> 0,
   after |-> {}, closed |-> {}]

NoStorage == [has |-> FALSE, roster |-> <<>>, latest |-> <<>>]

\* No /replay call in progress.
RqIdle ==
  [pc |-> "idle", impl |-> "", raceId |-> "", from |-> 0, to |-> 0, hzRaw |-> JsUndef,
   hz |-> 0, stepMs |-> 0, rows |-> <<>>, t |-> 0, idx |-> <<>>, rowIdx |-> 0,
   lastByBoat |-> <<>>, frames |-> <<>>]

RaceInit ==
  /\ now = StartMs
  /\ ticks = 0
  /\ loaded = FALSE
  /\ roster = <<>>
  /\ latest = <<>>
  /\ sockets = {}
  /\ broken = {}
  /\ inbox = [s \in Subs |-> <<>>]
  /\ subs = 0
  /\ regM = [s \in Subs |-> 0]
  /\ storage = NoStorage
  /\ kv = <<>>
  /\ req = [r \in Reqs |-> IdleSlot]
  /\ calls = 0
  /\ evicts = 0
  /\ mlog = <<>>
  /\ last = 0

Races == {"r1", "r2"}

GwSlots == 1..MaxGw

NoChannel == [roster |-> <<>>, latest |-> <<>>, sockets |-> {}, storage |-> NoStorage]

GwIdle == [pc |-> "idle", n |-> 0, race |-> "", body |-> NoBody, arr |-> <<>>,
           payload |-> [roster |-> <<>>, latest |-> <<>>]]

\* No request has reached the gateway.
GatewayIdle ==
  /\ ch = [r \in Races |-> NoChannel]
  /\ gq = [g \in GwSlots |-> GwIdle]
  /\ gn = 0
  /\ gh = <<>>

\* The live page before its first loadRace(): no socket, no timer.
ClIdle ==
  [ws |-> 0, st |-> [s \in 1..MaxSocks |-> [state |-> "none", purpose |-> FALSE]],
   timers |-> 0, cause |-> "", courses |-> 0, loads |-> 0, drops |-> 0]

OtIdle == [pc |-> "idle", impl |-> "", clock |-> 0, report |-> JsNull, payload |-> JsNull,
           lastSeen |-> JsUndef, live |-> FALSE, status |-> 0]

TkIdle == [pc |-> "idle", impl |-> "", n |-> 0, rows |-> <<>>]

\* No /track call has been made.
TrackIdle ==
  /\ tn = 0
  /\ tk = [s \in 1..MaxTracks |-> TkIdle]
  /\ th = <<>>

Init ==
  /\ RaceInit
  /\ log = <<>>
  /\ rq = RqIdle
  /\ hist = <<>>
  /\ keyed = TRUE
  /\ TrackIdle
  /\ GatewayIdle
  /\ ot = OtIdle
  /\ cl = ClIdle

\* No input gate: events are delivered while a storage operation is awaited.
InputGateAlwaysOpen == TRUE

\* While a storage operation of the object is awaited, the runtime delivers
\* no other event to the object (requests, I/O completions, socket events).
InputGateOpen ==
  \A r \in Reqs : req[r].pc \notin {"load", "persist"}

\* broadcast that coalesces: a socket whose last message is an incremental
\* event is not sent another one.
BroadcastInboxCoalescing(ibx, socks, brk, ev, m) ==
  [s \in Subs |-> IF /\ s \in socks /\ s \notin brk
                     /\ ~(ibx[s] # <<>> /\ ibx[s][Len(ibx[s])].ev.type = "update"
                           /\ ev.type = "update")
                  THEN Append(ibx[s], [ev |-> ev, m |-> m])
                  ELSE ibx[s]]

\* broadcast(event): send to every socket; a socket whose send throws is deleted.
\* The new inbox and the new socket set.
BroadcastInbox(ibx, socks, brk, ev, m) ==
  [s \in Subs |-> IF s \in socks /\ s \notin brk
                  THEN Append(ibx[s], [ev |-> ev, m |-> m])
                  ELSE ibx[s]]

\* broadcast whose first throwing send empties the socket set.
BroadcastSocketsClearAll(socks, brk) == IF socks \cap brk = {} THEN socks ELSE {}

BroadcastSockets(socks, brk) == socks \ brk

\* A full event built from the roster alone.
FullEventRosterOnly(ros, lat, t) ==
  [type |-> "full", now |-> t, boats |-> boatsView(ros, <<>>, t)]

FullEvent(ros, lat, t) == [type |-> "full", now |-> t, boats |-> boatsView(ros, lat, t)]

\* boatsCount of the /join answer: this.roster.size
boatsCount(ros) == Len(ros)

UpdateEvent(boatId, view, t) == [type |-> "update", now |-> t, boat |-> boatId, data |-> view]

Done(r, status) ==
  /\ req' = [req EXCEPT ![r] = IdleSlot]
  /\ last' = status

\* fetch() after loadOnce(), up to its next await or its return; ros and lat
\* are the in-memory maps at that point.
Route(r, c, ros, lat) ==
  CASE c.kind = "ws" /\ ~c.upgrade ->
         /\ req' = [req EXCEPT ![r] = IdleSlot]
         /\ last' = 426
         /\ UNCHANGED <<sockets, inbox, subs, regM>>
    [] c.kind = "ws" /\ c.upgrade ->
         LET s == subs + 1 IN
         /\ sockets' = sockets \cup {s}
         /\ inbox' = [inbox EXCEPT ![s] = <<[ev |-> FullEvent(ros, lat, now), m |-> 0]>>]
         /\ subs' = s
         /\ regM' = [regM EXCEPT ![s] = Len(mlog)]
         /\ req' = [req EXCEPT ![r] = IdleSlot]
         /\ last' = 101
    [] c.kind = "boats" ->
         /\ req' = [req EXCEPT ![r] = IdleSlot]
         /\ last' = 200
         /\ UNCHANGED <<sockets, inbox, subs, regM>>
    [] c.kind \in {"join", "update"} ->
         /\ req' = [req EXCEPT ![r] = [c EXCEPT !.pc = "text"]]
         /\ UNCHANGED <<sockets, inbox, subs, regM, last>>
    [] OTHER ->
         /\ req' = [req EXCEPT ![r] = IdleSlot]
         /\ last' = 404
         /\ UNCHANGED <<sockets, inbox, subs, regM>>

\* A request reaches fetch(): loadOnce() returns at once when loaded, else it
\* awaits storage.get.
Arrive(r, kind, body, upgrade) ==
  LET c == [IdleSlot EXCEPT !.kind = kind, !.body = body, !.upgrade = upgrade,
                            !.after = {k \in 1..Len(mlog) : mlog[k].status = "ok"}]
  IN  /\ req[r].pc = "idle"
      /\ \A q \in Reqs : q < r => req[q].pc # "idle"
      /\ calls < MaxCalls
      /\ InputGateOpen
      /\ kind = "ws" => (upgrade => subs < MaxSubs)
      /\ calls' = calls + 1
      /\ IF loaded
         THEN Route(r, c, roster, latest)
         ELSE /\ req' = [req EXCEPT ![r] = [c EXCEPT !.pc = "load"]]
              /\ UNCHANGED <<sockets, inbox, subs, regM, last>>
      /\ UNCHANGED <<now, ticks, loaded, roster, latest, broken, storage, kv, evicts, mlog>>
      /\ UNCHANGED <<replayVars, trackVars, gateVars, ot, cl>>

\* loadOnce() that does not restore the roster.
LoadedRosterNotRestored(saved, ros) == ros

\* loadOnce() after its await: the saved lists become the in-memory maps.
LoadedRoster(saved, ros) == IF saved.has THEN MapFromEntries(saved.roster) ELSE ros
\* loadOnce() that does not restore the telemetry.
LoadedLatestNotRestored(saved, lat) == lat

LoadedLatest(saved, lat) == IF saved.has THEN MapFromEntries(saved.latest) ELSE lat

\* loadOnce() that deletes the snapshot it has read.
LoadDoneDeletesSnapshot(r) ==
  /\ req[r].pc = "load"
  /\ roster' = LoadedRoster(storage, roster)
  /\ latest' = LoadedLatest(storage, latest)
  /\ loaded' = TRUE
  /\ storage' = NoStorage
  /\ Route(r, req[r], roster', latest')
  /\ UNCHANGED <<now, ticks, broken, kv, calls, evicts, mlog>>
  /\ UNCHANGED <<replayVars, trackVars, gateVars, ot, cl>>

LoadDone(r) ==
  /\ req[r].pc = "load"
  /\ roster' = LoadedRoster(storage, roster)
  /\ latest' = LoadedLatest(storage, latest)
  /\ loaded' = TRUE
  /\ Route(r, req[r], roster', latest')
  /\ UNCHANGED <<now, ticks, broken, storage, kv, calls, evicts, mlog>>
  /\ UNCHANGED <<replayVars, trackVars, gateVars, ot, cl>>

\* The 400 answers of /join and /update before any await but the body read:
\* "" when the body is accepted.
JoinReject(body) ==
  IF body.bad THEN "Bad JSON"
  ELSE IF StrOrEmpty(body.raceId) = "" THEN "Missing raceId"
  ELSE IF StrOrEmpty(body.boatId) = "" THEN "Missing boatId"
  ELSE ""

UpdateReject(body) ==
  IF body.bad THEN "Bad JSON"
  ELSE IF StrOrEmpty(body.raceId) = "" THEN "Missing raceId"
  ELSE mustHaveTelemetryFields(body)

Reject(kind, body) == IF kind = "join" THEN JoinReject(body) ELSE UpdateReject(body)

\* request.text() resolved: parse and validate, then call updateRacesIndex.
TextDone(r) ==
  /\ req[r].pc = "text"
  /\ InputGateOpen
  /\ IF Reject(req[r].kind, req[r].body) # ""
     THEN Done(r, 400)
     ELSE /\ req' = [req EXCEPT ![r].pc = "idxget"]
          /\ UNCHANGED last
  /\ UNCHANGED <<now, ticks, loaded, roster, latest, sockets, broken, inbox, subs,
                 regM, storage, kv, calls, evicts, mlog>>
  /\ UNCHANGED <<replayVars, trackVars, gateVars, ot, cl>>

(***************************************************************************)
(* The in-memory mutations of /join and /update.                           *)
(***************************************************************************)
OptStr(v) == IF Truthy(v) THEN JsStr(ToStr(v)) ELSE JsUndef

\* /join that stamps joinedAt anew on every call.
JoinEntryRestamped(ros, body, t) ==
  LET boatId == StrOrEmpty(body.boatId)
      has == MapHas(ros, boatId)
  IN  [boatId |-> boatId,
       boatName |-> IF Truthy(body.boatName) THEN ToStr(body.boatName) ELSE boatId,
       nation |-> OptStr(body.nation),
       joinedAt |-> t,
       lastSeen |-> IF has THEN MapGet(ros, boatId).lastSeen ELSE JsUndef]

\* /join: the roster entry set for the boat; joinedAt and lastSeen of an
\* existing entry are kept.
JoinEntry(ros, body, t) ==
  LET boatId == StrOrEmpty(body.boatId)
      has == MapHas(ros, boatId)
  IN  [boatId |-> boatId,
       boatName |-> IF Truthy(body.boatName) THEN ToStr(body.boatName) ELSE boatId,
       nation |-> OptStr(body.nation),
       joinedAt |-> IF has THEN MapGet(ros, boatId).joinedAt ELSE t,
       lastSeen |-> IF has THEN MapGet(ros, boatId).lastSeen ELSE JsUndef]

JoinRoster(ros, body, t) == MapSet(ros, StrOrEmpty(body.boatId), JoinEntry(ros, body, t))

\* /update: t = safeNum(body.t) ?? nowMs()
UpdateT(body, t) == Nullish(safeNum(body.t), JsNum(t))

\* /update whose auto-created entry takes joinedAt from the sample's t.
AutoEntryJoinedAtSample(body, t) ==
  LET boatId == ToStr(body.boatId)
  IN  [boatId |-> boatId,
       boatName |-> IF Truthy(body.boatName) THEN ToStr(body.boatName) ELSE boatId,
       nation |-> OptStr(body.nation),
       joinedAt |-> Nullish(safeNum(body.t), JsNum(t)).n,
       lastSeen |-> JsUndef]

\* /update: the roster entry created when the boat is unknown.
AutoEntry(body, t) ==
  LET boatId == ToStr(body.boatId)
  IN  [boatId |-> boatId,
       boatName |-> IF Truthy(body.boatName) THEN ToStr(body.boatName) ELSE boatId,
       nation |-> OptStr(body.nation),
       joinedAt |-> t,
       lastSeen |-> JsUndef]

\* /update whose sample is stamped with the clock.
UpdateTelemStampedNow(body, t) ==
  [boatId |-> ToStr(body.boatId),
   lat |-> ToNumber(body.lat),
   lon |-> ToNumber(body.lon),
   t |-> JsNum(t),
   sog |-> Nullish(safeNum(body.sog), safeNum(body.speed)),
   cog |-> Nullish(safeNum(body.cog), safeNum(body.course)),
   heading |-> safeNum(body.heading),
   heel |-> safeNum(body.heel)]

\* /update: the telemetry sample cached for the boat.
UpdateTelem(body, t) ==
  [boatId |-> ToStr(body.boatId),
   lat |-> ToNumber(body.lat),
   lon |-> ToNumber(body.lon),
   t |-> UpdateT(body, t),
   sog |-> Nullish(safeNum(body.sog), safeNum(body.speed)),
   cog |-> Nullish(safeNum(body.cog), safeNum(body.course)),
   heading |-> safeNum(body.heading),
   heel |-> safeNum(body.heel)]

\* /update that leaves lastSeen of the entry as it was.
UpdateEntryLastSeenKept(ros, body, t) ==
  LET boatId == ToStr(body.boatId)
  IN  IF MapHas(ros, boatId) THEN MapGet(ros, boatId) ELSE AutoEntry(body, t)

\* /update: the boat's roster entry after entry.lastSeen = t.
UpdateEntry(ros, body, t) ==
  LET boatId == ToStr(body.boatId)
      entry == IF MapHas(ros, boatId) THEN MapGet(ros, boatId) ELSE AutoEntry(body, t)
  IN  [entry EXCEPT !.lastSeen = UpdateT(body, t)]

\* /update without the auto-created roster entry.
UpdateRosterKnownOnly(ros, body, t) ==
  IF MapHas(ros, ToStr(body.boatId))
  THEN MapSet(ros, ToStr(body.boatId), UpdateEntry(ros, body, t))
  ELSE ros

UpdateRoster(ros, body, t) == MapSet(ros, ToStr(body.boatId), UpdateEntry(ros, body, t))

\* /update that keeps a cached sample whose t is greater.
UpdateLatestNewestWins(lat, body, t) ==
  LET id == ToStr(body.boatId)
  IN  IF MapHas(lat, id) /\ MapGet(lat, id).t.n > UpdateTelem(body, t).t.n
      THEN lat
      ELSE MapSet(lat, id, UpdateTelem(body, t))

UpdateLatest(lat, body, t) == MapSet(lat, ToStr(body.boatId), UpdateTelem(body, t))

\* /update: the BoatView broadcast for the boat.
UpdateView(entry, telem) ==
  [boatId |-> entry.boatId,
   boatName |-> entry.boatName,
   nation |-> entry.nation,
   joinedAt |-> entry.joinedAt,
   live |-> TRUE,
   lastSeen |-> telem.t,
   lat |-> telem.lat,
   lng |-> telem.lon,
   speed |-> telem.sog,
   heading |-> Nullish(telem.heading, telem.cog),
   timestamp |-> telem.t]

\* persist() writing the roster alone.
PayloadRosterOnly(ros, lat) == [roster |-> MapEntries(ros), latest |-> <<>>]

\* persist(): the payload handed to storage.put
Payload(ros, lat) == [roster |-> MapEntries(ros), latest |-> MapEntries(lat)]

BoatOf(kind, body) == IF kind = "join" THEN StrOrEmpty(body.boatId) ELSE ToStr(body.boatId)

\* The handler between updateRacesIndex() returning and the await of
\* storage.put inside persist().
Mutate(r) ==
  LET c == req[r]
      m == Len(mlog) + 1
  IN  /\ roster' = IF c.kind = "join" THEN JoinRoster(roster, c.body, now)
                   ELSE UpdateRoster(roster, c.body, now)
      /\ latest' = IF c.kind = "join" THEN latest
                   ELSE UpdateLatest(latest, c.body, now)
      /\ req' = [req EXCEPT ![r] =
                   [c EXCEPT !.pc = "persist",
                             !.payload = Payload(roster', latest'),
                             !.view = IF c.kind = "join" THEN JsUndef
                                      ELSE UpdateView(UpdateEntry(roster, c.body, now),
                                                      UpdateTelem(c.body, now)),
                             !.m = m]]
      /\ mlog' = Append(mlog, [kind |-> c.kind, boat |-> BoatOf(c.kind, c.body),
                               status |-> "pending", after |-> c.after,
                               dropped |-> {}, closed |-> c.closed, boatsCount |-> 0])

\* updateRacesIndex: HISTORY.get resolved (ok) or threw (caught and ignored).
IdxGetDone(r, ok) ==
  /\ req[r].pc = "idxget"
  /\ InputGateOpen
  /\ LET raceId == StrOrEmpty(req[r].body.raceId)
         included == \E i \in 1..Len(kv) : kv[i] = raceId
     IN  IF ok /\ ~included
         THEN /\ req' = [req EXCEPT ![r].pc = "idxput", ![r].arr = Append(kv, raceId)]
              /\ UNCHANGED <<roster, latest, mlog>>
         ELSE Mutate(r)
  /\ UNCHANGED <<now, ticks, loaded, sockets, broken, inbox, subs, regM, storage, kv,
                 calls, evicts, last>>
  /\ UNCHANGED <<replayVars, trackVars, gateVars, ot, cl>>

\* updateRacesIndex: HISTORY.put resolved (ok) or threw (caught and ignored).
IdxPutDone(r, ok) ==
  /\ req[r].pc = "idxput"
  /\ InputGateOpen
  /\ kv' = IF ok THEN req[r].arr ELSE kv
  /\ Mutate(r)
  /\ UNCHANGED <<now, ticks, loaded, sockets, broken, inbox, subs, regM, storage,
                 calls, evicts, last>>
  /\ UNCHANGED <<replayVars, trackVars, gateVars, ot, cl>>

\* persist() resolved: broadcast and answer 200.
PersistOk(r) ==
  LET c == req[r]
      ev == IF c.kind = "join" THEN FullEvent(roster, latest, now)
            ELSE UpdateEvent(c.view.boatId, c.view, now)
  IN  /\ c.pc = "persist"
      /\ storage' = [has |-> TRUE, roster |-> c.payload.roster, latest |-> c.payload.latest]
      /\ inbox' = BroadcastInbox(inbox, sockets, broken, ev, c.m)
      /\ sockets' = BroadcastSockets(sockets, broken)
      /\ mlog' = [mlog EXCEPT ![c.m].status = "ok",
                               ![c.m].dropped = sockets \cap broken,
                               ![c.m].boatsCount = IF c.kind = "join" THEN boatsCount(roster)
                                                   ELSE 0]
      /\ Done(r, 200)
      /\ UNCHANGED <<now, ticks, loaded, roster, latest, broken, subs, regM, kv, calls,
                     evicts>>
      /\ UNCHANGED <<replayVars, trackVars, gateVars, ot, cl>>

\* storage.put rejected: persist() and fetch() throw; nothing is broadcast.
PersistFail(r) ==
  LET c == req[r]
  IN  /\ c.pc = "persist"
      /\ mlog' = [mlog EXCEPT ![c.m].status = "failed"]
      /\ Done(r, 500)
      /\ UNCHANGED <<now, ticks, loaded, roster, latest, sockets, broken, inbox, subs,
                     regM, storage, kv, calls, evicts>>
      /\ UNCHANGED <<replayVars, trackVars, gateVars, ot, cl>>

(***************************************************************************)
(* The environment: time, the peers of the sockets, eviction.              *)
(***************************************************************************)
Tick ==
  /\ ticks < MaxTicks
  /\ now' = now + TickStep(ticks)
  /\ ticks' = ticks + 1
  /\ UNCHANGED <<loaded, roster, latest, sockets, broken, inbox, subs, regM, storage,
                 kv, req, calls, evicts, mlog, last>>
  /\ UNCHANGED <<replayVars, trackVars, gateVars, ot, cl>>

\* The peer of a registered socket goes away.
Break(s) ==
  /\ s \in sockets \ broken
  /\ broken' = broken \cup {s}
  /\ UNCHANGED <<now, ticks, loaded, roster, latest, sockets, inbox, subs, regM,
                 storage, kv, req, calls, evicts, mlog, last>>
  /\ UNCHANGED <<replayVars, trackVars, gateVars, ot, cl>>

\* Set.delete that removes a present socket and adds an absent one.
SocketsDeleteToggling(socks, s) == IF s \in socks THEN socks \ {s} ELSE socks \cup {s}

\* this.sockets.delete(server)
SocketsDelete(socks, s) == socks \ {s}

\* The "close" or "error" listener of a socket runs: once for a socket that
\* is registered, and again (the other listener, or after a failed send has
\* deleted the socket) for one that is not.  The calls in progress note it.
CloseEvent(s) ==
  /\ s \in broken
  /\ s <= subs
  /\ InputGateOpen
  /\ sockets' = SocketsDelete(sockets, s)
  /\ req' = [r \in Reqs |-> IF req[r].pc # "idle" /\ s \in sockets
                             THEN [req[r] EXCEPT !.closed = @ \cup {s}]
                             ELSE req[r]]
  /\ UNCHANGED <<now, ticks, loaded, roster, latest, broken, inbox, subs, regM,
                 storage, kv, calls, evicts, mlog, last>>
  /\ UNCHANGED <<replayVars, trackVars, gateVars, ot, cl>>

\* The runtime evicts the idle object; the next fetch() runs on a new instance.
Evict ==
  /\ \A r \in Reqs : req[r].pc = "idle"
  /\ evicts < MaxEvicts
  /\ loaded
  /\ evicts' = evicts + 1
  /\ loaded' = FALSE
  /\ roster' = <<>>
  /\ latest' = <<>>
  /\ broken' = broken \cup sockets
  /\ sockets' = {}
  /\ UNCHANGED <<now, ticks, inbox, subs, regM, storage, kv, req, calls, mlog, last>>
  /\ UNCHANGED <<replayVars, trackVars, gateVars, ot, cl>>

Next ==
  \/ \E r \in Reqs : \E b \in UpdateBodies : Arrive(r, "update", b, FALSE)
  \/ \E r \in Reqs : \E b \in JoinBodies : Arrive(r, "join", b, FALSE)
  \/ \E r \in Reqs : \E u \in BOOLEAN : Arrive(r, "ws", NoBody, u)
  \/ \E r \in Reqs : \E k \in {"boats", "other"} : Arrive(r, k, NoBody, FALSE)
  \/ \E r \in Reqs : LoadDone(r)
  \/ \E r \in Reqs : TextDone(r)
  \/ \E r \in Reqs : \E ok \in BOOLEAN : IdxGetDone(r, ok)
  \/ \E r \in Reqs : \E ok \in BOOLEAN : IdxPutDone(r, ok)
  \/ \E r \in Reqs : PersistOk(r)
  \/ \E r \in Reqs : PersistFail(r)
  \/ Tick
  \/ \E s \in Subs : Break(s)
  \/ \E s \in Subs : CloseEvent(s)
  \/ Evict

Spec == Init /\ [][Next]_vars

(***************************************************************************)
(* Replay: the track_points table and the two /replay handlers, the        *)
(* smoothed one (src/unnamed/part_003) and handleReplay                    *)
(* (src/unnamed/part_001).  A query parameter is JsNull when absent, JsNaN *)
(* when its text is not a number, else the number of its text; hz is       *)
(* counted in hundredths of a hertz.                                       *)
(***************************************************************************)
MaxReplays == 2

\* maxWindowMs = 6 * 60 * 60 * 1000
maxWindowMs == 21600000

RECURSIVE Gcd(_, _)
Gcd(a, b) == IF b = 0 THEN a ELSE Gcd(b, a % b)

Abs(x) == IF x < 0 THEN -x ELSE x

\* A JavaScript number n / d (d > 0), in lowest terms.
Q(n, d) == LET g == Gcd(Abs(n), d) IN [n |-> n \div g, d |-> d \div g]

Num(i) == Q(i, 1)

\* A number of a row as a number of the response, undefined when absent.
OutNum(v) == IF v.k = "num" THEN Num(v.n) ELSE JsUndef

Max(a, b) == IF a > b THEN a ELSE b
Min(a, b) == IF a < b THEN a ELSE b

\* clamp(n, lo, hi) = Math.max(lo, Math.min(hi, n))
clamp(n, lo, hi) == Max(lo, Min(hi, n))

\* clamp(alpha, 0, 1) on a fraction
clampUnit(x) == IF x.n < 0 THEN Num(0) ELSE IF x.n > x.d THEN Num(1) ELSE x

\* Math.round(a / b) for positive a, b: halves round up.
RoundDiv(a, b) == (2 * a + b) \div (2 * b)

\* The boatIds of the inputs, in ascending order.
BoatIds == <<"B1", "B2">>
BoatRank(b) == CHOOSE i \in 1..Len(BoatIds) : BoatIds[i] = b

\* A row of track_points.
Row(race, boat, t, lat, lon, sog, name) ==
  [raceId |-> race, boatId |-> boat, t |-> t, lat |-> lat, lon |-> lon,
   sog |-> sog, cog |-> JsNull, name |-> name]

\* The tables the model starts from; (raceId, boatId, t) is unique in each.
ReplayLogs ==
  { <<>>,
    << Row("R1", "B1", 0, 0, 0, JsNum(2), JsStr("One")),
       Row("R1", "B1", 4000, 4, 4, JsNum(6), JsNull),
       Row("R2", "B1", 2000, 9, 9, JsNull, JsNull) >>,
    << Row("R1", "B2", 5000, 5, 50, JsNull, JsNull),
       Row("R1", "B1", 0, 1, 1, JsNum(3), JsNull),
       Row("R1", "B1", 6000, 7, 7, JsNull, JsNull) >>,
    << Row("R1", "B2", 1000, 3, 30, JsNum(1), JsNull),
       Row("R1", "B1", 1000, 1, 10, JsNum(1), JsNull),
       Row("R1", "B1", 3000, 5, 50, JsNum(4), JsNull),
       Row("R1", "B2", 3000, 6, 60, JsNull, JsNull),
       Row("R1", "B1", 2000, 2, 20, JsNull, JsNull) >> }

HzInputs == {JsNull, JsNum(5), JsNum(50), JsNum(100), JsNum(700), JsNum(100000)}

Args(race, from, to, hz) == [raceId |-> race, from |-> from, to |-> to, hz |-> hz]

ValidReplayArgs ==
  {Args(JsStr("R1"), JsNum(0), to, hz) : to \in {JsNum(4000), JsNum(6000)}, hz \in HzInputs}

InvalidReplayArgs ==
  { Args(JsNull, JsNum(0), JsNum(4000), JsNum(100)),
    Args(JsStr("R1"), JsNum(4000), JsNum(0), JsNum(100)),
    Args(JsStr("R1"), JsNum(4000), JsNum(4000), JsNum(100)),
    Args(JsStr("R1"), JsNaN, JsNum(4000), JsNum(100)),
    Args(JsStr("R1"), JsNull, JsNum(4000), JsNum(100)) }

\* A window wider than six hours; offered to the smoothed handler, which
\* refuses it.
TooWideReplayArgs == {Args(JsStr("R1"), JsNum(0), JsNum(maxWindowMs + 1), JsNum(100))}

ReplayArgs(impl) ==
  ValidReplayArgs \cup InvalidReplayArgs \cup
    (IF impl = "smoothed" THEN TooWideReplayArgs ELSE {})

(***************************************************************************)
(* The query: the rows of the race in the window, in an order the ORDER BY *)
(* allows; rows with equal keys come in any order.                         *)
(***************************************************************************)
Selected(race, from, to) ==
  {i \in 1..Len(log) : log[i].raceId = race /\ log[i].t >= from /\ log[i].t <= to}

\* ORDER BY boatId ASC, t ASC
ByBoatThenT(a, b) ==
  \/ BoatRank(a.boatId) < BoatRank(b.boatId)
  \/ a.boatId = b.boatId /\ a.t <= b.t

\* ORDER BY t ASC
ByT(a, b) == a.t <= b.t

\* The orders in which the query may return the rows S: any order that its
\* ORDER BY clause allows (rows that tie under the clause come in any order).
InOrder(impl, a, b) == IF impl = "smoothed" THEN ByBoatThenT(a, b) ELSE ByT(a, b)

Orderings(S, impl) ==
  {f \in [1..Cardinality(S) -> S] :
     /\ \A i, j \in 1..Cardinality(S) : i # j => f[i] # f[j]
     /\ \A i, j \in 1..Cardinality(S) : i < j => InOrder(impl, log[f[i]], log[f[j]])}

(***************************************************************************)
(* The smoothed handler.                                                   *)
(***************************************************************************)
\* Number(url.searchParams.get("hz") || "4"), then clamp(..., 1, 10)
smoothedHz(raw) ==
  LET hzRaw == IF raw = JsNull THEN JsNum(400) ELSE ToNumber(raw)
  IN  clamp(IF hzRaw.k = "num" THEN hzRaw.n ELSE 400, 100, 1000)

\* Math.floor(1000 / hz)
smoothedStepMs(hz) == 100000 \div hz

\* The parameter checks without the cap of the window.
smoothedRejectNoWindowCap(a) ==
  LET from == ToNumber(a.from)
      to == ToNumber(a.to)
  IN  IF ~Truthy(a.raceId) THEN "Missing raceId"
      ELSE IF from.k # "num" \/ to.k # "num" THEN "from/to must be unix ms"
      ELSE IF to.n <= from.n THEN "to must be > from"
      ELSE ""

\* "" when the parameters pass, else the 400 message.
smoothedReject(a) ==
  LET from == ToNumber(a.from)
      to == ToNumber(a.to)
  IN  IF ~Truthy(a.raceId) THEN "Missing raceId"
      ELSE IF from.k # "num" \/ to.k # "num" THEN "from/to must be unix ms"
      ELSE IF to.n <= from.n THEN "to must be > from"
      ELSE IF to.n - from.n > maxWindowMs THEN "time window too large (max 6 hours)"
      ELSE ""

\* r.sog ?? undefined
NullToUndef(v) == IF v = JsNull THEN JsUndef ELSE v

TrackPointOf(r) ==
  [raceId |-> r.raceId, boatId |-> r.boatId, t |-> r.t, lat |-> r.lat, lon |-> r.lon,
   sog |-> NullToUndef(r.sog), cog |-> NullToUndef(r.cog), name |-> NullToUndef(r.name)]

\* byBoat: boatId -> its points, in the order of the rows.
RECURSIVE byBoat(_)
byBoat(rows) ==
  IF rows = <<>> THEN <<>>
  ELSE LET n == Len(rows)
           m == byBoat(SubSeq(rows, 1, n - 1))
           tp == TrackPointOf(rows[n])
       IN  MapSet(m, tp.boatId,
                  Append(IF MapHas(m, tp.boatId) THEN MapGet(m, tp.boatId) ELSE <<>>, tp))

\* lerp with the two ends exchanged.
lerpSwapped(a, b, x) == Q(b * x.d + (a - b) * x.n, x.d)

\* lerp(a, b, x) = a + (b - a) * x
lerp(a, b, x) == Q(a * x.d + (b - a) * x.n, x.d)

lerpOpt(u, v, x) ==
  IF u.k = "num" /\ v.k = "num" THEN lerp(u.n, v.n, x) ELSE OutNum(Nullish(u, v))

interp(p0, p1, t) ==
  LET span == p1.t - p0.t
      alpha == IF span <= 0 THEN Num(0) ELSE Q(t - p0.t, span)
      x == clampUnit(alpha)
  IN  [boatId |-> p0.boatId,
       name |-> Nullish(p0.name, p1.name),
       lat |-> lerp(p0.lat, p1.lat, x),
       lon |-> lerp(p0.lon, p1.lon, x),
       sog |-> lerpOpt(p0.sog, p1.sog, x),
       cog |-> lerpOpt(p0.cog, p1.cog, x),
       t |-> t]

\* A stored point as the frame's value for its boat.
AtPoint(boatId, p, t) ==
  [boatId |-> boatId, name |-> p.name, lat |-> Num(p.lat), lon |-> Num(p.lon),
   sog |-> OutNum(p.sog), cog |-> OutNum(p.cog), t |-> t]

\* while (i + 1 < pts.length && pts[i + 1].t < t) i++   (i counts from 0)
RECURSIVE advance(_, _, _)
advance(pts, i, t) ==
  IF i + 1 < Len(pts) /\ pts[i + 2].t < t THEN advance(pts, i + 1, t) ELSE i

\* The loop's body holding the point under the cursor after the last point.
smoothedBoatHoldsCursor(boatId, pts, i, t) ==
  IF t <= pts[1].t THEN AtPoint(boatId, pts[1], t)
  ELSE IF t >= pts[Len(pts)].t THEN AtPoint(boatId, pts[i + 1], t)
  ELSE interp(pts[i + 1], pts[i + 2], t)

\* The frame loop's body for one boat, with its cursor already advanced.
smoothedBoat(boatId, pts, i, t) ==
  IF t <= pts[1].t THEN AtPoint(boatId, pts[1], t)
  ELSE IF t >= pts[Len(pts)].t THEN AtPoint(boatId, pts[Len(pts)], t)
  ELSE interp(pts[i + 1], pts[i + 2], t)

smoothedIdx(rows, idx, t) ==
  LET bb == byBoat(rows)
  IN  [k \in 1..Len(bb) |-> <<bb[k][1], advance(bb[k][2], MapGet(idx, bb[k][1]), t)>>]

\* The frame stamped with the time of the next turn of the loop.
smoothedFrameStampedNext(rows, idx, t) ==
  LET bb == byBoat(rows)
      ix == smoothedIdx(rows, idx, t)
  IN  [t |-> t + 1,
       boats |-> [k \in 1..Len(bb) |-> smoothedBoat(bb[k][1], bb[k][2], ix[k][2], t)]]

smoothedFrame(rows, idx, t) ==
  LET bb == byBoat(rows)
      ix == smoothedIdx(rows, idx, t)
  IN  [t |-> t,
       boats |-> [k \in 1..Len(bb) |-> smoothedBoat(bb[k][1], bb[k][2], ix[k][2], t)]]

(***************************************************************************)
(* handleReplay.                                                           *)
(***************************************************************************)
\* toNumber: the number, or null
toNumber(v) == IF v.k = "num" THEN v ELSE JsNull

\* Math.max(0.1, Math.min(10, toNumber(hz) ?? 2))
handleReplayHz(raw) == Max(10, Min(1000, Nullish(toNumber(raw), JsNum(200)).n))

\* Math.max(50, Math.round(1000 / hz))
handleReplayStepMs(hz) == Max(50, RoundDiv(100000, hz))

handleReplayReject(a) ==
  LET from == toNumber(a.from)
      to == toNumber(a.to)
  IN  IF ~Truthy(a.raceId) THEN "raceId is required"
      ELSE IF from = JsNull \/ to = JsNull THEN "from/to must be unix ms"
      ELSE IF ~(to.n > from.n) THEN "to must be > from"
      ELSE ""

\* The value lastByBoat keeps for a row.
lastPointOf(r) ==
  [raceId |-> r.raceId, boatId |-> r.boatId, name |-> NullToUndef(r.name),
   lat |-> Num(r.lat), lon |-> Num(r.lon), sog |-> OutNum(r.sog), cog |-> OutNum(r.cog),
   t |-> r.t]

\* while (rowIdx < rows.length && Number(rows[rowIdx].t) <= ts) ...
RECURSIVE consume(_, _, _, _)
consume(rows, rowIdx, ts, m) ==
  IF rowIdx < Len(rows) /\ rows[rowIdx + 1].t <= ts
  THEN consume(rows, rowIdx + 1, ts,
               MapSet(m, rows[rowIdx + 1].boatId, lastPointOf(rows[rowIdx + 1])))
  ELSE [rowIdx |-> rowIdx, lastByBoat |-> m]

\* Array.from(lastByBoat.values())
MapValues(m) == [k \in 1..Len(m) |-> m[k][2]]

(***************************************************************************)
(* The steps of a /replay call.                                            *)
(***************************************************************************)
Returned(impl, a, status, hz, stepMs, frames) ==
  [impl |-> impl, args |-> a, status |-> status, hz |-> hz, stepMs |-> stepMs,
   frames |-> frames]

\* The handler up to the await of the query.
ReplayCall(impl, a) ==
  LET msg == IF impl = "smoothed" THEN smoothedReject(a) ELSE handleReplayReject(a)
      hz == IF impl = "smoothed" THEN smoothedHz(a.hz) ELSE handleReplayHz(a.hz)
      stepMs == IF impl = "smoothed" THEN smoothedStepMs(hz) ELSE handleReplayStepMs(hz)
  IN  /\ rq.pc = "idle"
      /\ Len(hist) < MaxReplays
      /\ IF msg # ""
         THEN /\ hist' = Append(hist, Returned(impl, a, 400, 0, 0, <<>>))
              /\ rq' = rq
         ELSE /\ rq' = [RqIdle EXCEPT !.pc = "query", !.impl = impl,
                                      !.raceId = a.raceId.s,
                                      !.from = ToNumber(a.from).n, !.to = ToNumber(a.to).n,
                                      !.hzRaw = a.hz, !.hz = hz, !.stepMs = stepMs]
              /\ hist' = hist
      /\ UNCHANGED log
      /\ UNCHANGED <<raceVars, trackVars, gateVars, ot, cl>>

ArgsOf(c) == Args(JsStr(c.raceId), JsNum(c.from), JsNum(c.to), c.hzRaw)

\* env.DB.prepare(...).all() resolved.
QueryDone ==
  /\ rq.pc = "query"
  /\ \E f \in Orderings(Selected(rq.raceId, rq.from, rq.to), rq.impl) :
       LET rows == [i \in 1..Len(f) |-> log[f[i]]]
           bb == byBoat(rows)
       IN  rq' = [rq EXCEPT !.pc = "frames", !.rows = rows, !.t = rq.from,
                            !.idx = [k \in 1..Len(bb) |-> <<bb[k][1], 0>>],
                            !.rowIdx = 0, !.lastByBoat = <<>>, !.frames = <<>>]
  /\ UNCHANGED <<log, hist>>
  /\ UNCHANGED <<raceVars, trackVars, gateVars, ot, cl>>

\* The query threw: the smoothed handler answers 500, handleReplay rejects.
QueryFail ==
  /\ rq.pc = "query"
  /\ hist' = Append(hist, Returned(rq.impl, ArgsOf(rq), 500, 0, 0, <<>>))
  /\ rq' = RqIdle
  /\ UNCHANGED log
  /\ UNCHANGED <<raceVars, trackVars, gateVars, ot, cl>>

\* One turn of the frame loop.
FrameStep ==
  /\ rq.pc = "frames"
  /\ rq.t <= rq.to
  /\ IF rq.impl = "smoothed"
     THEN rq' = [rq EXCEPT !.idx = smoothedIdx(rq.rows, rq.idx, rq.t),
                           !.frames = Append(rq.frames,
                                             smoothedFrame(rq.rows, rq.idx, rq.t)),
                           !.t = rq.t + rq.stepMs]
     ELSE LET c == consume(rq.rows, rq.rowIdx, rq.t, rq.lastByBoat)
          IN  rq' = [rq EXCEPT !.rowIdx = c.rowIdx, !.lastByBoat = c.lastByBoat,
                               !.frames = Append(rq.frames,
                                                 [t |-> rq.t,
                                                  boats |-> MapValues(c.lastByBoat)]),
                               !.t = rq.t + rq.stepMs]
  /\ UNCHANGED <<log, hist>>
  /\ UNCHANGED <<raceVars, trackVars, gateVars, ot, cl>>

\* The loop has ended: the response.
ReplayReturn ==
  /\ rq.pc = "frames"
  /\ rq.t > rq.to
  /\ hist' = Append(hist, Returned(rq.impl, ArgsOf(rq), 200, rq.hz, rq.stepMs, rq.frames))
  /\ rq' = RqIdle
  /\ UNCHANGED log
  /\ UNCHANGED <<raceVars, trackVars, gateVars, ot, cl>>

ReplayInit ==
  /\ RaceInit
  /\ log \in ReplayLogs
  /\ rq = RqIdle
  /\ hist = <<>>
  /\ keyed = TRUE
  /\ TrackIdle
  /\ GatewayIdle
  /\ ot = OtIdle
  /\ cl = ClIdle

ReplayNext ==
  \/ \E impl \in {"smoothed", "handleReplay"} : \E a \in ReplayArgs(impl) : ReplayCall(impl, a)
  \/ QueryDone
  \/ QueryFail
  \/ FrameStep
  \/ ReplayReturn

ReplaySpec == ReplayInit /\ [][ReplayNext]_vars

(***************************************************************************)
(* Track ingest: POST /track of three workers writing track_points.        *)
(*   "handleTrack": src/unnamed/part_004, single or batch payload, the     *)
(*                  write handed to ctx.waitUntil, plain INSERT;           *)
(*   "trackBatch":  src/unnamed/part_003 (first worker), single or batch   *)
(*                  payload, awaited batch of INSERT OR REPLACE;           *)
(*   "track":       src/unnamed/part_003 (second worker), single payload,  *)
(*                  awaited INSERT OR REPLACE.                             *)
(* The table definition is not part of the sources: keyed tells whether    *)
(* (raceId, boatId, t) is a unique key of track_points.  The calls to the  *)
(* race object that the handlers make beside the write do not touch the    *)
(* table and are left out.                                                 *)
(***************************************************************************)
TrackSlots == 1..MaxTracks

\* One entry of a payload: the fields a point is read from.
Pt(boat, t, lat, lon) == [boatId |-> boat, t |-> t, lat |-> lat, lon |-> lon]

\* A payload: bad when the text is not JSON; batch when it carries boats: [...],
\* else pts holds the body itself read as one point.
TrackBody(race, batch, pts) == [bad |-> FALSE, raceId |-> race, batch |-> batch, pts |-> pts]

ValidTrackBodies ==
  { TrackBody(JsStr("R1"), FALSE, <<Pt(JsStr("B1"), JsNum(1000), JsNum(1), JsNum(10))>>),
    TrackBody(JsStr("R1"), FALSE, <<Pt(JsStr("B1"), JsNum(2000), JsNum(2), JsNum(20))>>),
    TrackBody(JsStr("R1"), FALSE, <<Pt(JsStr("B1"), JsNum(1000), JsNum(9), JsNum(90))>>),
    TrackBody(JsStr("R1"), TRUE, <<Pt(JsStr("B1"), JsNum(1000), JsNum(1), JsNum(10)),
                                   Pt(JsStr("B2"), JsNum(1000), JsNum(3), JsNum(30)),
                                   Pt(JsStr("B1"), JsNum(2000), JsNum(2), JsNum(20))>>) }

InvalidTrackBodies ==
  { [TrackBody(JsUndef, FALSE, <<>>) EXCEPT !.bad = TRUE],
    TrackBody(JsUndef, FALSE, <<Pt(JsStr("B1"), JsNum(1000), JsNum(1), JsNum(10))>>),
    TrackBody(JsStr("R1"), FALSE, <<Pt(JsUndef, JsNum(1000), JsNum(1), JsNum(10))>>),
    TrackBody(JsStr("R1"), TRUE, <<Pt(JsStr("B1"), JsNum(1000), JsNum(1), JsNum(10)),
                                   Pt(JsStr("B2"), JsNum(1000), JsUndef, JsNum(30))>>),
    TrackBody(JsStr("R1"), FALSE, <<Pt(JsStr("B1"), JsNum(1000), JsNum(91), JsNum(10))>>) }

TrackBodies == ValidTrackBodies \cup InvalidTrackBodies

\* The body read as one point when it carries no boats array.
AsPoint(body) == IF body.pts = <<>> THEN Pt(JsUndef, JsUndef, JsUndef, JsUndef) ELSE body.pts[1]

\* The outcome of reading a payload: the message of the 400 answer, or the rows.
Refuse(msg) == [error |-> msg, rows |-> <<>>]
Accept(rows) == [error |-> "", rows |-> rows]

\* The first refusal among the outcomes of the points, else all their rows.
RECURSIVE Collect(_)
Collect(outs) ==
  IF outs = <<>> THEN Accept(<<>>)
  ELSE IF Head(outs).error # "" THEN Head(outs)
  ELSE LET rest == Collect(Tail(outs))
       IN  IF rest.error # "" THEN rest ELSE Accept(Head(outs).rows \o rest.rows)

\* handleTrack: one point of the payload.
handleTrackPoint(raceId, b, t0) ==
  LET boatId == StrOrEmpty(b.boatId)
      lat == ToNumber(b.lat)
      lon == ToNumber(b.lon)
      t == IF b.t.k \in {"undef", "null"} THEN JsNum(t0) ELSE ToNumber(b.t)
  IN  IF boatId = "" THEN Refuse("boatId is required")
      ELSE IF lat.k # "num" \/ lon.k # "num" THEN Refuse("lat/lon must be numbers")
      ELSE IF t.k # "num" THEN Refuse("t must be unix ms")
      ELSE Accept(<<Row(raceId, boatId, t.n, lat.n, lon.n, JsNull, JsNull)>>)

\* handleTrack up to the write: the points of the payload.
handleTrackPoints(body, t0) ==
  LET raceId == StrOrEmpty(body.raceId)
      pts == IF body.batch THEN body.pts ELSE <<AsPoint(body)>>
      got == Collect([i \in 1..Len(pts) |-> handleTrackPoint(raceId, pts[i], t0)])
  IN  IF body.bad THEN Refuse("Invalid JSON")
      ELSE IF raceId = "" THEN Refuse("raceId is required")
      ELSE IF got.error # "" THEN got
      ELSE IF got.rows = <<>> THEN Refuse("no points")
      ELSE got

\* normalizePoint of the batch worker: the fields are taken as they come.
normalizePoint(raceId, b) ==
  IF ~Truthy(b.boatId) THEN Refuse("boatId is required")
  ELSE IF b.lat = JsUndef \/ b.lon = JsUndef THEN Refuse("lat/lon are required")
  ELSE IF b.t = JsUndef THEN Refuse("t is required")
  ELSE Accept(<<Row(raceId.s, b.boatId.s, b.t.n, b.lat.n, b.lon.n, JsNull, JsNull)>>)

trackBatchPoints(body) ==
  LET pts == IF body.batch THEN body.pts ELSE <<AsPoint(body)>>
  IN  IF body.bad THEN Refuse("Invalid JSON")
      ELSE IF ~Truthy(body.raceId) THEN Refuse("raceId is required")
      ELSE Collect([i \in 1..Len(pts) |-> normalizePoint(body.raceId, pts[i])])

\* The single-point worker: a payload with a boats array has no boatId of its own.
trackPoint(body, t0) ==
  LET p == IF body.batch THEN Pt(JsUndef, JsUndef, JsUndef, JsUndef) ELSE AsPoint(body)
      raceId == StrOrEmpty(body.raceId)
      boatId == StrOrEmpty(p.boatId)
      lat == ToNumber(p.lat)
      lon == ToNumber(p.lon)
      t == IF p.t.k = "num" THEN p.t.n ELSE t0
  IN  IF body.bad THEN Refuse("Invalid JSON")
      ELSE IF raceId = "" THEN Refuse("raceId is required")
      ELSE IF boatId = "" THEN Refuse("boatId is required")
      ELSE IF lat.k # "num" \/ lon.k # "num" THEN Refuse("lat/lon must be numbers")
      ELSE IF Abs(lat.n) > 90 \/ Abs(lon.n) > 180 THEN Refuse("lat/lon out of range")
      ELSE Accept(<<Row(raceId, boatId, t, lat.n, lon.n, JsNull, JsNull)>>)

PointsOf(impl, body, t0) ==
  CASE impl = "handleTrack" -> handleTrackPoints(body, t0)
    [] impl = "trackBatch" -> trackBatchPoints(body)
    [] OTHER -> trackPoint(body, t0)

\* The statement of the worker: INSERT OR REPLACE, or plain INSERT.
OrReplace(impl) == impl \in {"trackBatch", "track"}

\* The rows of the table with the key of row.
SameKey(tab, row) ==
  {i \in 1..Len(tab) : /\ tab[i].raceId = row.raceId
                       /\ tab[i].boatId = row.boatId
                       /\ tab[i].t = row.t}

\* The table without the rows at the positions D.
RECURSIVE Without(_, _)
Without(tab, D) ==
  IF tab = <<>> THEN <<>>
  ELSE LET n == Len(tab)
           front == Without(SubSeq(tab, 1, n - 1), D)
       IN  IF n \in D THEN front ELSE Append(front, tab[n])

\* One statement on the table.  Under a unique key a plain INSERT of an
\* existing key fails, and INSERT OR REPLACE deletes the row of that key
\* before it inserts.
InsertRow(tab, row, orReplace, isKeyed) ==
  IF isKeyed /\ SameKey(tab, row) # {}
  THEN IF orReplace
       THEN [ok |-> TRUE, tab |-> Append(Without(tab, SameKey(tab, row)), row)]
       ELSE [ok |-> FALSE, tab |-> tab]
  ELSE [ok |-> TRUE, tab |-> Append(tab, row)]

\* DB.batch: the statements in order, in one transaction.
RECURSIVE InsertBatch(_, _, _, _)
InsertBatch(tab, rows, orReplace, isKeyed) ==
  IF rows = <<>> THEN [ok |-> TRUE, tab |-> tab]
  ELSE LET one == InsertRow(tab, Head(rows), orReplace, isKeyed)
       IN  IF one.ok THEN InsertBatch(one.tab, Tail(rows), orReplace, isKeyed) ELSE one

\* The response of /track call n.
Answered(n, impl, status, rows) == [n |-> n, impl |-> impl, status |-> status, rows |-> rows]

\* A /track request arrives: the handler up to its write.  handleTrack hands
\* the write to ctx.waitUntil and answers at once.
TrackCall(s, impl, body) ==
  LET got == PointsOf(impl, body, now)
      n == tn + 1
  IN  /\ tk[s].pc = "idle"
      /\ \A q \in TrackSlots : q < s => tk[q].pc # "idle"
      /\ tn < MaxTrackCalls
      /\ tn' = n
      /\ IF got.error # ""
         THEN /\ th' = Append(th, Answered(n, impl, 400, <<>>))
              /\ tk' = tk
         ELSE /\ tk' = [tk EXCEPT ![s] = [pc |-> "write", impl |-> impl, n |-> n,
                                          rows |-> got.rows]]
              /\ th' = IF impl = "handleTrack"
                       THEN Append(th, Answered(n, impl, 200, got.rows))
                       ELSE th
      /\ UNCHANGED <<log, keyed>>
      /\ UNCHANGED <<raceVars, rq, hist, gateVars, ot, cl>>

\* The database has run the write of call s.
WriteDone(s) ==
  LET c == tk[s]
      res == InsertBatch(log, c.rows, OrReplace(c.impl), keyed)
  IN  /\ c.pc = "write"
      /\ log' = res.tab
      /\ tk' = [tk EXCEPT ![s] = TkIdle]
      /\ th' = IF c.impl = "handleTrack" THEN th
               ELSE Append(th, Answered(c.n, c.impl, IF res.ok THEN 200 ELSE 500, c.rows))
      /\ UNCHANGED <<tn, keyed>>
      /\ UNCHANGED <<raceVars, rq, hist, gateVars, ot, cl>>

\* The write of call s failed before it reached the table.
WriteFail(s) ==
  LET c == tk[s]
  IN  /\ c.pc = "write"
      /\ tk' = [tk EXCEPT ![s] = TkIdle]
      /\ th' = IF c.impl = "handleTrack" THEN th
               ELSE Append(th, Answered(c.n, c.impl, 500, c.rows))
      /\ UNCHANGED <<log, tn, keyed>>
      /\ UNCHANGED <<raceVars, rq, hist, gateVars, ot, cl>>

TrackInit ==
  /\ RaceInit
  /\ log = <<>>
  /\ rq = RqIdle
  /\ hist = <<>>
  /\ keyed \in BOOLEAN
  /\ TrackIdle
  /\ GatewayIdle
  /\ ot = OtIdle
  /\ cl = ClIdle

TrackNext ==
  \/ \E s \in TrackSlots : \E impl \in {"handleTrack", "trackBatch", "track"} :
       \E body \in TrackBodies : TrackCall(s, impl, body)
  \/ \E s \in TrackSlots : WriteDone(s)
  \/ \E s \in TrackSlots : WriteFail(s)

TrackSpec == TrackInit /\ [][TrackNext]_vars

(***************************************************************************)
(* The gateway (src/src/index.ts) in front of the race objects of two      *)
(* races.  idFromName(raceId) names one RaceState object per raceId; each  *)
(* has its own roster, telemetry, sockets and storage, and all of them     *)
(* use the one KV entry "races:index".  The objects stay in memory here    *)
(* (no eviction), so loadOnce() finds nothing to restore.                  *)
(***************************************************************************)
\* stubForRace: the object of the raceId.
stubForRace(raceId) == raceId

\* The answer to gateway call n.
GwAnswer(n, kind, race, boat, status) ==
  [n |-> n, kind |-> kind, race |-> race, boat |-> boat, status |-> status]

\* The raceId query parameters of /ws/live: absent, or a race.
WsRaceIds == {JsNull, JsStr("r1"), JsStr("r2")}

\* No storage operation of the object of race r is awaited.
ChannelGateOpen(r) == \A g \in GwSlots : ~(gq[g].pc = "persist" /\ gq[g].race = r)

\* POST /update at the gateway: the body is parsed for its raceId and the
\* text forwarded to the object of that race, which validates it and calls
\* updateRacesIndex.
GwUpdate(g, body) ==
  LET n == gn + 1
      raceId == StrOrEmpty(body.raceId)
  IN  /\ gq[g].pc = "idle"
      /\ \A q \in GwSlots : q < g => gq[q].pc # "idle"
      /\ gn < MaxGwCalls
      /\ gn' = n
      /\ IF body.bad \/ raceId = ""
         THEN /\ gh' = Append(gh, GwAnswer(n, "update", "", "", 400))
              /\ gq' = gq
         ELSE /\ raceId \in Races
              /\ ChannelGateOpen(stubForRace(raceId))
              /\ IF UpdateReject(body) # ""
                 THEN /\ gh' = Append(gh, GwAnswer(n, "update", raceId, "", 400))
                      /\ gq' = gq
                 ELSE /\ gq' = [gq EXCEPT ![g] = [GwIdle EXCEPT !.pc = "idxget", !.n = n,
                                                               !.race = stubForRace(raceId),
                                                               !.body = body]]
                      /\ gh' = gh
      /\ UNCHANGED <<ch, kv>>
      /\ UNCHANGED <<raceVarsButKv, replayVars, trackVars, ot, cl>>

\* /ws/live at the gateway: forwarded to the object of the raceId of the
\* URL, which registers the socket.
GwSubscribe(raceId, upgrade) ==
  LET n == gn + 1
  IN  /\ gn < MaxGwCalls
      /\ gn' = n
      /\ IF ~Truthy(raceId)
         THEN /\ gh' = Append(gh, GwAnswer(n, "ws", "", "", 400))
              /\ ch' = ch
         ELSE /\ ChannelGateOpen(stubForRace(raceId.s))
              /\ IF upgrade
                 THEN /\ ch' = [ch EXCEPT ![stubForRace(raceId.s)].sockets = @ \cup {n}]
                      /\ gh' = Append(gh, GwAnswer(n, "ws", raceId.s, "", 101))
                 ELSE /\ ch' = ch
                      /\ gh' = Append(gh, GwAnswer(n, "ws", raceId.s, "", 426))
      /\ UNCHANGED <<gq, kv>>
      /\ UNCHANGED <<raceVarsButKv, replayVars, trackVars, ot, cl>>

\* POST /join at the gateway: no route matches.
GwJoin(body) ==
  /\ gn < MaxGwCalls
  /\ gn' = gn + 1
  /\ gh' = Append(gh, GwAnswer(gn + 1, "join", StrOrEmpty(body.raceId), "", 404))
  /\ UNCHANGED <<ch, gq, kv>>
  /\ UNCHANGED <<raceVarsButKv, replayVars, trackVars, ot, cl>>

\* /update in the object between updateRacesIndex() and the await of storage.put.
GwMutate(g) ==
  LET c == gq[g]
      ros == UpdateRoster(ch[c.race].roster, c.body, now)
      lat == UpdateLatest(ch[c.race].latest, c.body, now)
  IN  /\ ch' = [ch EXCEPT ![c.race].roster = ros, ![c.race].latest = lat]
      /\ gq' = [gq EXCEPT ![g].pc = "persist", ![g].payload = Payload(ros, lat)]

\* updateRacesIndex of call g: HISTORY.get resolved (ok) or threw.
GwIdxGet(g, ok) ==
  LET c == gq[g]
      raceId == StrOrEmpty(c.body.raceId)
      included == \E i \in 1..Len(kv) : kv[i] = raceId
  IN  /\ c.pc = "idxget"
      /\ ChannelGateOpen(c.race)
      /\ IF ok /\ ~included
         THEN /\ gq' = [gq EXCEPT ![g].pc = "idxput", ![g].arr = Append(kv, raceId)]
              /\ ch' = ch
         ELSE GwMutate(g)
      /\ UNCHANGED <<kv, gn, gh>>
      /\ UNCHANGED <<raceVarsButKv, replayVars, trackVars, ot, cl>>

\* updateRacesIndex of call g: HISTORY.put resolved (ok) or threw.
GwIdxPut(g, ok) ==
  /\ gq[g].pc = "idxput"
  /\ ChannelGateOpen(gq[g].race)
  /\ kv' = IF ok THEN gq[g].arr ELSE kv
  /\ GwMutate(g)
  /\ UNCHANGED <<gn, gh>>
  /\ UNCHANGED <<raceVarsButKv, replayVars, trackVars, ot, cl>>

\* persist() of call g resolved (ok) or rejected; the answer goes back
\* through the gateway.
GwPersist(g, ok) ==
  LET c == gq[g]
  IN  /\ c.pc = "persist"
      /\ ch' = IF ok
               THEN [ch EXCEPT ![c.race].storage =
                       [has |-> TRUE, roster |-> c.payload.roster, latest |-> c.payload.latest]]
               ELSE ch
      /\ gh' = Append(gh, GwAnswer(c.n, "update", c.race, ToStr(c.body.boatId),
                                   IF ok THEN 200 ELSE 500))
      /\ gq' = [gq EXCEPT ![g] = GwIdle]
      /\ UNCHANGED <<kv, gn>>
      /\ UNCHANGED <<raceVarsButKv, replayVars, trackVars, ot, cl>>

GatewayInit ==
  /\ RaceInit
  /\ log = <<>>
  /\ rq = RqIdle
  /\ hist = <<>>
  /\ keyed = TRUE
  /\ TrackIdle
  /\ GatewayIdle
  /\ ot = OtIdle
  /\ cl = ClIdle

GatewayNext ==
  \/ \E g \in GwSlots : \E body \in UpdateBodies : GwUpdate(g, body)
  \/ \E raceId \in WsRaceIds : \E u \in BOOLEAN : GwSubscribe(raceId, u)
  \/ \E body \in ValidJoinBodies : GwJoin(body)
  \/ \E g \in GwSlots : \E ok \in BOOLEAN : GwIdxGet(g, ok)
  \/ \E g \in GwSlots : \E ok \in BOOLEAN : GwIdxPut(g, ok)
  \/ \E g \in GwSlots : \E ok \in BOOLEAN : GwPersist(g, ok)

GatewaySpec == GatewayInit /\ [][GatewayNext]_vars

(***************************************************************************)
(* The OwnTracks adapter: /ingest/owntracks of the gateway turns a device  *)
(* report into an update record and forwards it to /update of the race     *)
(* object.  "index" is ownTracksToUpdatePayload of src/src/index.ts,       *)
(* "part_002" that of src/unnamed/part_002.  Epoch times in milliseconds    *)
(* exceed 32-bit integers, so in this part every JavaScript number x is    *)
(* written x / 1000: the clock 1.7e12 ms is 1700000000, the same instant   *)
(* in seconds 1700000, the thresholds 1e12 and 1e15 are 1000000000 and     *)
(* 1000000000 * 1000, and LIVE_MS is LIVE_MS / 1000.  The numbers of the   *)
(* inputs are multiples of 1000000, so every division below is exact.      *)
(***************************************************************************)
\* Date.now() at the time of the report.
OtClocks == {1700000000, 1700001000, 1600000000}

\* The time fields a device sends, given the clock: absent, the instant in
\* seconds, the instant in milliseconds, 1000 s earlier in either unit, text.
OtTimes(clock) ==
  {JsUndef, JsNum(clock \div 1000), JsNum(clock), JsNum((clock \div 1000) - 1000),
   JsNum(clock - 1000000), JsStr("x")}

OtReport(raceId, boatId, lat, lon, tst, t) ==
  [raceId |-> raceId, boatId |-> boatId, lat |-> lat, lon |-> lon, tst |-> tst, t |-> t]

OtReports(clock) ==
  {OtReport(JsStr("r1"), JsStr("a"), JsNum(10), JsNum(20), tst, t) :
     tst \in OtTimes(clock), t \in {JsUndef, JsNum(clock)}}
  \cup {OtReport(JsNull, JsStr("a"), JsNum(10), JsNum(20), JsUndef, JsUndef),
        OtReport(JsStr("r1"), JsUndef, JsNum(10), JsNum(20), JsUndef, JsUndef),
        OtReport(JsStr("r1"), JsStr("a"), JsUndef, JsNum(20), JsUndef, JsUndef)}

\* let t = Number(body?.tst ?? body?.t ?? Date.now() / 1000);
\* if (!Number.isFinite(t)) t = Math.floor(Date.now() / 1000);
OtRawT(b, clock) ==
  LET v == Nullish(b.tst, Nullish(b.t, JsNum(clock \div 1000)))
      n == ToNumber(v)
  IN  IF n.k = "num" THEN n.n ELSE clock \div 1000

\* src/src/index.ts: if (t > 1e12) t = Math.floor(t / 1000);
indexT(b, clock) ==
  LET t == OtRawT(b, clock)
  IN  IF t > 1000000000 THEN t \div 1000 ELSE t

\* src/unnamed/part_002: if (t < 1e12) t = Math.floor(t * 1000);
\*                       if (t > 1e15) t = Math.floor(t / 1000);
part002T(b, clock) ==
  LET t == OtRawT(b, clock)
      ms == IF t < 1000000000 THEN t * 1000 ELSE t
  IN  IF ms \div 1000 > 1000000000 THEN ms \div 1000 ELSE ms

\* ownTracksToUpdatePayload: null (JsNull) or the update record.
ownTracksToUpdatePayload(impl, b, clock) ==
  IF ~Truthy(b.raceId) \/ ~Truthy(b.boatId) THEN JsNull
  ELSE IF ToNumber(b.lat).k # "num" \/ ToNumber(b.lon).k # "num" THEN JsNull
  ELSE [Rec(b.raceId, b.boatId, ToNumber(b.lat), ToNumber(b.lon)) EXCEPT
          !.t = JsNum(IF impl = "index" THEN indexT(b, clock) ELSE part002T(b, clock))]

\* live of boatsView, with LIVE_MS written as the other numbers are.
OtLive(lastSeen, clock) ==
  IF Truthy(lastSeen) THEN (clock - lastSeen.n) <= LIVE_MS \div 1000 ELSE FALSE

\* A report reaches /ingest/owntracks: the payload, or the 400 answer.
OtForward(impl, b) ==
  LET p == ownTracksToUpdatePayload(impl, b, ot.clock)
  IN  /\ ot.pc = "idle"
      /\ ot' = IF p = JsNull
               THEN [ot EXCEPT !.pc = "done", !.impl = impl, !.report = b, !.status = 400]
               ELSE [ot EXCEPT !.pc = "forwarded", !.impl = impl, !.report = b, !.payload = p]
      /\ UNCHANGED <<raceVars, replayVars, trackVars, gateVars, cl>>

\* /update of the race object with the forwarded record: t = safeNum(body.t)
\* ?? nowMs(), entry.lastSeen = t.
OtUpdate ==
  /\ ot.pc = "forwarded"
  /\ ot' = IF UpdateReject(ot.payload) # ""
           THEN [ot EXCEPT !.pc = "done", !.status = 400]
           ELSE [ot EXCEPT !.pc = "stored", !.status = 200,
                           !.lastSeen = UpdateT(ot.payload, ot.clock)]
  /\ UNCHANGED <<raceVars, replayVars, trackVars, gateVars, cl>>

\* GET /boats right after the update returned.
OtSnapshot ==
  /\ ot.pc = "stored"
  /\ ot' = [ot EXCEPT !.pc = "done", !.live = OtLive(ot.lastSeen, ot.clock)]
  /\ UNCHANGED <<raceVars, replayVars, trackVars, gateVars, cl>>

AdapterInit ==
  /\ RaceInit
  /\ log = <<>>
  /\ rq = RqIdle
  /\ hist = <<>>
  /\ keyed = TRUE
  /\ TrackIdle
  /\ GatewayIdle
  /\ \E clock \in OtClocks : ot = [OtIdle EXCEPT !.clock = clock]
  /\ cl = ClIdle

AdapterNext ==
  \/ \E impl \in {"index", "part_002"} : \E b \in OtReports(ot.clock) : OtForward(impl, b)
  \/ OtUpdate
  \/ OtSnapshot

AdapterSpec == AdapterInit /\ [][AdapterNext]_vars

(***************************************************************************)
(* The browser live client: FinnTrackAPI.connectLive / disconnectLive      *)
(* (src/unnamed/part_006) driven by the live page                          *)
(* (src/public/js/live.js).  A WebSocket is "connecting", "open",          *)
(* "closing" (closed by either side, its close event not yet delivered)    *)
(* or "closed"; a slot that holds no socket is "none".  The server accepts *)
(* every connection and closes a socket at most MaxDrops times.            *)
(***************************************************************************)
SockIds == 1..MaxSocks

NoSocket == [state |-> "none", purpose |-> FALSE]

\* ws.close(): acts on a connecting or open socket only.
closeSocket(st, s) ==
  IF st[s].state \in {"connecting", "open"}
  THEN [st EXCEPT ![s] = [state |-> "closing", purpose |-> TRUE]]
  ELSE st

\* if (ws) { ws.close(); ws = null; } : the sockets afterwards.  A closed
\* socket that ws no longer refers to is gone.
dropWs(c) ==
  IF c.ws = 0 THEN c.st
  ELSE LET st1 == closeSocket(c.st, c.ws)
       IN  IF st1[c.ws].state = "closed" THEN [st1 EXCEPT ![c.ws] = NoSocket] ELSE st1

\* FinnTrackAPI.disconnectLive()
disconnectLive(c) == [c EXCEPT !.st = dropWs(c), !.ws = 0]

\* A slot for new WebSocket(wsUrl) is free.
CanConnect(c) == \E s \in SockIds : dropWs(c)[s].state = "none"

\* FinnTrackAPI.connectLive(onMessage, onClose): the callbacks are stored,
\* the current socket is closed and a new one is created with its onclose
\* listener.
connectLive(c) ==
  LET st1 == dropWs(c)
      s == CHOOSE x \in SockIds : /\ st1[x].state = "none"
                                  /\ \A y \in SockIds : st1[y].state = "none" => x <= y
  IN  [c EXCEPT !.st = [st1 EXCEPT ![s] = [state |-> "connecting", purpose |-> FALSE]],
                !.ws = s]

\* handleDisconnect(): clearTimeout(reconnectTimer), then setTimeout(..., 3000).
\* cause notes whether the closed socket had been closed by the client.
handleDisconnect(c, purpose) ==
  [c EXCEPT !.timers = 1,
            !.cause = IF purpose THEN "purpose" ELSE "server"]

\* loadRace() up to its await: setRaceId, disconnectLive, loadCourseData.
LoadRace ==
  /\ cl.loads < MaxLoads
  /\ cl' = [disconnectLive(cl) EXCEPT !.loads = cl.loads + 1, !.courses = cl.courses + 1]
  /\ UNCHANGED <<raceVars, replayVars, trackVars, gateVars, ot>>

\* loadCourseData() resolved: renderCourseLayers, connect().
CourseDone ==
  /\ cl.courses > 0
  /\ CanConnect(cl)
  /\ cl' = [connectLive(cl) EXCEPT !.courses = cl.courses - 1]
  /\ UNCHANGED <<raceVars, replayVars, trackVars, gateVars, ot>>

\* The server accepts the connection: ws.onopen.
SocketOpen(s) ==
  /\ cl.st[s].state = "connecting"
  /\ cl' = [cl EXCEPT !.st[s].state = "open"]
  /\ UNCHANGED <<raceVars, replayVars, trackVars, gateVars, ot>>

\* The server closes the socket.
ServerDrop(s) ==
  /\ cl.st[s].state \in {"connecting", "open"}
  /\ cl.drops < MaxDrops
  /\ cl' = [cl EXCEPT !.st[s] = [state |-> "closing", purpose |-> FALSE],
                      !.drops = cl.drops + 1]
  /\ UNCHANGED <<raceVars, replayVars, trackVars, gateVars, ot>>

\* The close event of socket s: ws.onclose calls onCloseCallback, which is
\* handleDisconnect whatever socket the event belongs to.
SocketClosed(s) ==
  /\ cl.st[s].state = "closing"
  /\ cl' = handleDisconnect(
             [cl EXCEPT !.st[s] = IF cl.ws = s
                                  THEN [state |-> "closed", purpose |-> cl.st[s].purpose]
                                  ELSE NoSocket],
             cl.st[s].purpose)
  /\ UNCHANGED <<raceVars, replayVars, trackVars, gateVars, ot>>

\* The reconnect timer fires: connectLive(handleMessage, handleDisconnect).
TimerFires ==
  /\ cl.timers > 0
  /\ CanConnect(cl)
  /\ cl' = [connectLive(cl) EXCEPT !.timers = cl.timers - 1]
  /\ UNCHANGED <<raceVars, replayVars, trackVars, gateVars, ot>>

ClientInit ==
  /\ RaceInit
  /\ log = <<>>
  /\ rq = RqIdle
  /\ hist = <<>>
  /\ keyed = TRUE
  /\ TrackIdle
  /\ GatewayIdle
  /\ ot = OtIdle
  /\ cl = ClIdle

ClientNext ==
  \/ LoadRace
  \/ CourseDone
  \/ \E s \in SockIds : SocketOpen(s)
  \/ \E s \in SockIds : ServerDrop(s)
  \/ \E s \in SockIds : SocketClosed(s)
  \/ TimerFires

\* The browser delivers every pending event and runs every due timer.
ClientSpec ==
  /\ ClientInit
  /\ [][ClientNext]_vars
  /\ WF_vars(CourseDone)
  /\ WF_vars(TimerFires)
  /\ \A s \in SockIds : WF_vars(SocketOpen(s)) /\ WF_vars(SocketClosed(s))

(***************************************************************************)
(* Vocabulary of the properties.                                           *)
(***************************************************************************)
\* Call r returns 200 from /join or /update in this step.
ReturnsOk(r) ==
  /\ req[r].pc = "persist"
  /\ req'[r].pc = "idle"
  /\ mlog'[req[r].m].status = "ok"

\* Call r's storage.put is rejected in this step.
ReturnsError(r) ==
  /\ req[r].pc = "persist"
  /\ req'[r].pc = "idle"
  /\ mlog'[req[r].m].status = "failed"

\* A canonical update record: string ids, numeric lat/lon, no alias field.
Canonical(body) ==
  /\ ~body.bad
  /\ body.raceId.k = "str" /\ body.raceId.s # ""
  /\ body.boatId.k = "str" /\ body.boatId.s # ""
  /\ body.lat.k = "num" /\ body.lon.k = "num"
  /\ body.speed = JsUndef /\ body.course = JsUndef

\* The field of a view, undefined when the view has no such field.
FieldOf(v, name) == IF name \in DOMAIN v THEN v[name] ELSE JsUndef

\* The snapshot of the channel.
Snapshot == boatsView(roster, latest, now)

\* The positions in a socket's inbox of the events caused by mutation k.
EventsOf(s, k) == {i \in 1..Len(inbox[s]) : inbox[s][i].m = k}

C2_SequentialUpdatesInOrder ==
  \A s \in sockets : \A k2 \in 1..Len(mlog) : \A k1 \in mlog[k2].after :
    ( /\ mlog[k1].kind = "update"
      /\ mlog[k2].kind = "update"
      /\ mlog[k2].status = "ok"
      /\ k1 > regM[s] ) =>
    \E i \in EventsOf(s, k1) : \E j \in EventsOf(s, k2) :
      /\ i < j
      /\ inbox[s][i].ev.type = "update"
      /\ inbox[s][j].ev.type = "update"

\* A registered socket holds the events of two updates issued one after the other.
C2_Witness ==
  \E s \in sockets : \E k2 \in 1..Len(mlog) : \E k1 \in mlog[k2].after :
    /\ mlog[k1].kind = "update" /\ mlog[k2].kind = "update"
    /\ mlog[k2].status = "ok" /\ k1 > regM[s]
    /\ EventsOf(s, k1) # {} /\ EventsOf(s, k2) # {}

(***************************************************************************)
(* C3: in every socket's inbox the events appear in the order in which     *)
(* the mutations that caused them were applied, also for calls that were   *)
(* in flight at the same time.                                             *)
(***************************************************************************)
C3_BroadcastOrderIsMutationOrder ==
  \A s \in Subs : \A i, j \in 1..Len(inbox[s]) :
    i < j => inbox[s][i].m < inbox[s][j].m

\* A socket holds the events of two calls that overlapped: the later one was
\* issued before the earlier one returned.
C3_Witness ==
  \E s \in Subs : \E k1, k2 \in 1..Len(mlog) :
    /\ k1 < k2 /\ k1 \notin mlog[k2].after
    /\ mlog[k1].status = "ok" /\ mlog[k2].status = "ok"
    /\ EventsOf(s, k1) # {} /\ EventsOf(s, k2) # {}

(***************************************************************************)
(* C4 (as stated): the first message of a socket is the full-state event   *)
(* with the snapshot of the instant of registration, and every mutation    *)
(* applied after the registration, once its call has ended, has been       *)
(* delivered to the socket while it is registered.                         *)
(***************************************************************************)
C4_AsStated ==
  [][ /\ \A s \in Subs :
           (s \notin sockets /\ s \in sockets') =>
             /\ Len(inbox'[s]) = 1
             /\ inbox'[s][1].ev.type = "full"
             /\ inbox'[s][1].ev.boats = Snapshot'
      /\ \A s \in sockets' : \A k \in (regM'[s] + 1)..Len(mlog') :
           mlog'[k].status # "pending" => EventsOf(s, k)' # {} ]_vars

(***************************************************************************)
(* C5: in the snapshot and in every full-state event, a boat with a        *)
(* lastSeen value is live exactly when now - lastSeen <= 120000, and a     *)
(* boat with a cached sample stays in the view with its last lat/lon       *)
(* whether live or not.                                                    *)
(***************************************************************************)
LiveAsSpecified(v, t) ==
  v.lastSeen # JsUndef => (v.live <=> (t - v.lastSeen.n <= LIVE_MS))

C5_StalenessInViews ==
  /\ \A b \in DOMAIN Snapshot : LiveAsSpecified(Snapshot[b], now)
  /\ \A b \in MapKeys(latest) :
       /\ b \in DOMAIN Snapshot
       /\ Snapshot[b].lat = MapGet(latest, b).lat
       /\ Snapshot[b].lng = MapGet(latest, b).lon
  /\ \A s \in Subs : \A i \in 1..Len(inbox[s]) :
       inbox[s][i].ev.type = "full" =>
         \A b \in DOMAIN inbox[s][i].ev.boats :
           LiveAsSpecified(inbox[s][i].ev.boats[b], inbox[s][i].ev.now)

\* A boat last seen 121000 ms ago is in the snapshot, stale, with its position.
C5_Witness ==
  \E b \in DOMAIN Snapshot :
    /\ Snapshot[b].lastSeen.k = "num"
    /\ now - Snapshot[b].lastSeen.n = LIVE_MS + 1000
    /\ ~Snapshot[b].live
    /\ Snapshot[b].lat = JsNum(10)
    /\ Snapshot[b].lng = JsNum(20)

(***************************************************************************)
(* C6: every boat with a cached telemetry sample has a roster entry, in    *)
(* memory, in the persisted snapshot and in every payload being written.   *)
(***************************************************************************)
C6_TelemetryWithinRoster ==
  /\ MapKeys(latest) \subseteq MapKeys(roster)
  /\ MapKeys(storage.latest) \subseteq MapKeys(storage.roster)
  /\ \A r \in Reqs : MapKeys(req[r].payload.latest) \subseteq MapKeys(req[r].payload.roster)

\* The object was evicted and reloaded, and holds telemetry.
C6_Witness ==
  /\ evicts > 0
  /\ loaded
  /\ latest # <<>>
  /\ storage.latest # <<>>

(***************************************************************************)
(* C7: a /join or /update call whose input is invalid (unparseable body,   *)
(* missing raceId, empty boatId, missing or non-finite lat/lon) is         *)
(* answered 400, and a call answered 400 leaves the roster, the telemetry, *)
(* the persisted snapshot, the race index, the sockets and their inboxes   *)
(* as they were.                                                           *)
(***************************************************************************)
NotFinite(v) == v.k \in {"undef", "inf", "nan"} \/ (v.k = "str" /\ v.s = "x")

ListedInvalid(kind, body) ==
  \/ body.bad
  \/ body.raceId.k # "str" \/ body.raceId.s = ""
  \/ body.boatId.k # "str" \/ body.boatId.s = ""
  \/ kind = "update" /\ (NotFinite(body.lat) \/ NotFinite(body.lon))

C7_RejectionHasNoEffect ==
  [][\A r \in Reqs :
       (req[r].pc = "text" /\ req'[r].pc # "text") =>
         /\ ListedInvalid(req[r].kind, req[r].body) => (req'[r].pc = "idle" /\ last' = 400)
         /\ req'[r].pc = "idle" =>
              UNCHANGED <<roster, latest, storage, kv, inbox, sockets, mlog>>]_vars

\* A call was answered 400 while the channel held a roster, telemetry and a
\* persisted snapshot.
C7_Witness ==
  /\ last = 400
  /\ roster # <<>>
  /\ latest # <<>>
  /\ storage.has

(***************************************************************************)
(* C8 (as stated): an update whose lat is outside [-90, 90] or whose lon   *)
(* is outside [-180, 180] is answered 400 and changes no state.            *)
(***************************************************************************)
OutOfRange(body) ==
  LET la == ToNumber(body.lat)
      lo == ToNumber(body.lon)
  IN  /\ la.k = "num" /\ lo.k = "num"
      /\ (la.n < -90 \/ la.n > 90 \/ lo.n < -180 \/ lo.n > 180)

C8_AsStated ==
  [][\A r \in Reqs :
       ( /\ req[r].pc = "text" /\ req'[r].pc # "text"
         /\ req[r].kind = "update" /\ ~req[r].body.bad
         /\ OutOfRange(req[r].body) ) =>
         /\ req'[r].pc = "idle"
         /\ last' = 400
         /\ UNCHANGED <<roster, latest, storage, kv, inbox, sockets, mlog>>]_vars

(***************************************************************************)
(* C9.  When a join or update returns 200, the stored snapshot lists every *)
(* roster entry and every sample in memory, with the call's own entry and  *)
(* sample as they are in memory.                                           *)
(***************************************************************************)
StoredOnReturn ==
  \A r \in Reqs :
    ReturnsOk(r) =>
      LET id == BoatOf(req[r].kind, req[r].body)
      IN  /\ storage'.has
          /\ MapKeys(storage'.roster) = MapKeys(roster')
          /\ MapKeys(storage'.latest) = MapKeys(latest')
          /\ MapGet(storage'.roster, id) = MapGet(roster', id)
          /\ req[r].kind = "update" => MapGet(storage'.latest, id) = MapGet(latest', id)

\* No /join or /update call is in flight.
Quiescent == \A r \in Reqs : req[r].kind \notin {"join", "update"}

\* The storage.put of the mutation applied last was not rejected.
LastWriteOk == mlog = <<>> \/ mlog[Len(mlog)].status = "ok"

MemPair == <<MapEntries(roster), MapEntries(latest)>>
PersistedPair == <<storage.roster, storage.latest>>

(***************************************************************************)
(* C9 (as stated): ... and whenever the loaded channel has no mutating     *)
(* call in flight, the persisted pair equals the in-memory pair.           *)
(***************************************************************************)
C9_AsStated ==
  [][ /\ StoredOnReturn
      /\ (loaded /\ Quiescent)' => (PersistedPair = MemPair)' ]_vars

(***************************************************************************)
(* C9 (amended): ... and whenever the loaded channel has no mutating call  *)
(* in flight and the durable write of the mutation applied last was not    *)
(* rejected, the persisted pair equals the in-memory pair.                 *)
(***************************************************************************)
C9_WriteThrough ==
  [][ /\ StoredOnReturn
      /\ (loaded /\ Quiescent /\ LastWriteOk)' => (PersistedPair = MemPair)' ]_vars

\* After a rejected write, a later call has returned 200 and the channel is
\* quiescent with telemetry persisted.
C9_Witness ==
  /\ loaded /\ Quiescent /\ LastWriteOk
  /\ \E k \in 1..Len(mlog) : mlog[k].status = "failed"
  /\ storage.has
  /\ storage.latest # <<>>

(***************************************************************************)
(* C10: when a recreated object finishes loading, its roster and telemetry *)
(* maps hold the entries of the last successful persist, key for key and   *)
(* field for field, storage is left as it was, and loading again from it   *)
(* gives the same maps.                                                    *)
(***************************************************************************)
LoadStep(r) == req[r].pc = "load" /\ req'[r].pc # "load"

SameEntries(m, list) ==
  /\ MapKeys(m) = {list[i][1] : i \in 1..Len(list)}
  /\ \A i \in 1..Len(list) : MapGet(m, list[i][1]) = list[i][2]

C10_ReloadRestoresPersisted ==
  [][\A r \in Reqs :
       LoadStep(r) =>
         /\ storage' = storage
         /\ SameEntries(roster', storage.roster)
         /\ SameEntries(latest', storage.latest)
         /\ LoadedRoster(storage', roster') = roster'
         /\ LoadedLatest(storage', latest') = latest']_vars

\* The object was evicted twice and has reloaded a roster and telemetry.
C10_Witness ==
  /\ evicts = 2
  /\ loaded
  /\ roster # <<>>
  /\ latest # <<>>

(***************************************************************************)
(* C11 (as stated): when the durable write of a join or update is          *)
(* rejected, the call ends with an error, its mutation stays in memory,    *)
(* and every socket registered since before the mutation has already been  *)
(* sent the event of that mutation.                                        *)
(***************************************************************************)
EventsAfterStep(s, k) == {i \in 1..Len(inbox'[s]) : inbox'[s][i].m = k}

C11_AsStated ==
  [][\A r \in Reqs :
       ReturnsError(r) =>
         /\ last' \notin {101, 200}
         /\ MapHas(roster', mlog[req[r].m].boat)
         /\ req[r].kind = "update" => MapHas(latest', mlog[req[r].m].boat)
         /\ \A s \in sockets' \ broken' :
              regM'[s] < req[r].m => EventsAfterStep(s, req[r].m) # {}]_vars

(***************************************************************************)
(* C12: when persist has resolved and the event is broadcast while the     *)
(* send to some registered sockets throws, exactly those sockets leave     *)
(* the socket set, every other registered socket receives the event once   *)
(* and nothing else, and the call returns 200.                             *)
(***************************************************************************)
C12_SendFailureIsIsolated ==
  [][\A r \in Reqs :
       ( /\ req[r].pc = "persist"
         /\ req'[r].pc = "idle"
         /\ storage' = [has |-> TRUE, roster |-> req[r].payload.roster,
                        latest |-> req[r].payload.latest]
         /\ mlog'[req[r].m].status = "ok" ) =>
         /\ last' = 200
         /\ sockets' = sockets \ broken
         /\ \A s \in sockets \ broken :
              /\ Len(inbox'[s]) = Len(inbox[s]) + 1
              /\ SubSeq(inbox'[s], 1, Len(inbox[s])) = inbox[s]
              /\ Cardinality(EventsAfterStep(s, req[r].m)) = 1
         /\ \A s \in Subs \ (sockets \ broken) : inbox'[s] = inbox[s]]_vars

\* A broadcast deleted one socket whose send threw while another socket,
\* registered before the mutation, received the event, and the call returned 200.
C12_Witness ==
  \E k \in 1..Len(mlog) : \E s1 \in mlog[k].dropped : \E s2 \in sockets :
    /\ mlog[k].status = "ok"
    /\ s1 \notin sockets
    /\ s1 # s2
    /\ regM[s2] < k
    /\ EventsOf(s1, k) = {}
    /\ Cardinality(EventsOf(s2, k)) = 1
    /\ last = 200

(***************************************************************************)
(* C13.  PutsInOrder: a durable write completes only for the mutation      *)
(* applied last, and it stores the maps as they are in memory then, so no  *)
(* write of an older snapshot lands after a newer one.                     *)
(***************************************************************************)
PutsInOrder ==
  \A r \in Reqs :
    ReturnsOk(r) =>
      /\ req[r].m = Len(mlog)
      /\ \A k \in 1..Len(mlog) : k # req[r].m => mlog[k].status # "pending"
      /\ storage'.roster = MapEntries(roster)
      /\ storage'.latest = MapEntries(latest)

\* No /join or /update call is between its mutation and its return.
NoWritePending == \A r \in Reqs : req[r].pc # "persist"

(***************************************************************************)
(* C13 (as stated): for overlapping mutating calls the durable writes take *)
(* effect in the order of the mutations, and once every call in flight     *)
(* has finished the persisted snapshot equals the in-memory state.         *)
(***************************************************************************)
C13_AsStated ==
  [][ /\ PutsInOrder
      /\ (loaded /\ Quiescent /\ mlog # <<>>)' =>
           (storage.has /\ PersistedPair = MemPair)' ]_vars

(***************************************************************************)
(* C13 (amended): ... and once every call in flight has finished and the  *)
(* durable write of the mutation applied last was not rejected, the        *)
(* persisted snapshot equals the in-memory state.                          *)
(***************************************************************************)
C13_WritesInMutationOrder ==
  [][ /\ PutsInOrder
      /\ (loaded /\ Quiescent /\ mlog # <<>> /\ LastWriteOk)' =>
           (storage.has /\ PersistedPair = MemPair)' ]_vars

\* Two calls overlapped (the later one was issued before the earlier one
\* returned), both wrote, and the channel is quiescent with both boats stored.
C13_Witness ==
  /\ loaded /\ Quiescent
  /\ \E k1, k2 \in 1..Len(mlog) :
       /\ k1 < k2 /\ k2 = Len(mlog)
       /\ k1 \notin mlog[k2].after
       /\ mlog[k1].status = "ok" /\ mlog[k2].status = "ok"
       /\ mlog[k1].boat # mlog[k2].boat
       /\ MapHas(storage.roster, mlog[k1].boat)
       /\ MapHas(storage.roster, mlog[k2].boat)

(***************************************************************************)
(* C14: a boat that has a roster entry before and after a step has the     *)
(* same joinedAt in both, whatever join or update the step applies.        *)
(***************************************************************************)
C14_JoinedAtImmutable ==
  [][\A b \in MapKeys(roster) \cap MapKeys(roster') :
       MapGet(roster', b).joinedAt = MapGet(roster, b).joinedAt]_vars

\* A join was applied last, to a boat that an update had stamped after the
\* clock advanced, and the entry still has the joinedAt of the start.
C14_Witness ==
  /\ Len(mlog) >= 2
  /\ mlog[Len(mlog)].kind = "join"
  /\ mlog[Len(mlog)].boat = "a"
  /\ evicts = 0
  /\ MapHas(roster, "a")
  /\ MapGet(roster, "a").boatName = "Alpha"
  /\ MapGet(roster, "a").lastSeen = JsNum(StartMs + LIVE_MS)
  /\ MapGet(roster, "a").joinedAt = StartMs
  /\ now > StartMs

(***************************************************************************)
(* C15: the step that applies an accepted update replaces the boat's       *)
(* cached sample by the update's and sets the entry's lastSeen to the      *)
(* update's t, also when the cached sample has a greater t; when the call  *)
(* returns 200 the cached sample is still its own.                         *)
(***************************************************************************)
MutateStep(r) == req[r].pc \in {"idxget", "idxput"} /\ req'[r].pc = "persist"

\* The t of an update: the body's when it is a finite number, else the clock.
SampleT(body, t) == IF body.t.k = "num" THEN body.t ELSE JsNum(t)

OwnSample(smp, body, t) ==
  /\ smp.t = SampleT(body, t)
  /\ smp.lat = ToNumber(body.lat)
  /\ smp.lon = ToNumber(body.lon)
  /\ smp.heading = body.heading
  /\ smp.heel = body.heel

C15_UpdateAlwaysOverwrites ==
  [][\A r \in Reqs :
       LET b == req[r].body
           id == b.boatId.s
       IN  /\ (MutateStep(r) /\ req[r].kind = "update") =>
                /\ MapHas(latest', id)
                /\ OwnSample(MapGet(latest', id), b, now)
                /\ MapGet(roster', id).lastSeen = SampleT(b, now)
           /\ (ReturnsOk(r) /\ req[r].kind = "update") =>
                /\ MapGet(latest', id).t = req[r].view.timestamp
                /\ MapGet(latest', id).lat = req[r].view.lat
                /\ MapGet(roster', id).lastSeen = req[r].view.timestamp]_vars

\* A socket received the event of an update and then that of an update of
\* the same boat with a smaller t; the cached sample is the second one.
C15_Witness ==
  \E s \in Subs : \E i, j \in 1..Len(inbox[s]) :
    /\ i < j /\ j = Len(inbox[s])
    /\ inbox[s][i].ev.type = "update" /\ inbox[s][j].ev.type = "update"
    /\ inbox[s][i].ev.boat = inbox[s][j].ev.boat
    /\ inbox[s][i].ev.data.timestamp.n > inbox[s][j].ev.data.timestamp.n
    /\ inbox[s][j].m = Len(mlog)
    /\ MapGet(latest, inbox[s][j].ev.boat).t = inbox[s][j].ev.data.timestamp
    /\ MapGet(roster, inbox[s][j].ev.boat).lastSeen = inbox[s][j].ev.data.timestamp

(***************************************************************************)
(* C16: the step that applies an accepted update for a boat without a      *)
(* roster entry creates the entry with joinedAt = now together with the    *)
(* sample, and the snapshot then lists the boat with that joinedAt and     *)
(* the update's lat and lon.                                               *)
(***************************************************************************)
C16_UpdateAutoCreates ==
  [][\A r \in Reqs :
       LET b == req[r].body
           id == b.boatId.s
       IN  ( /\ MutateStep(r) /\ req[r].kind = "update"
             /\ id \notin MapKeys(roster) ) =>
             /\ MapHas(roster', id)
             /\ MapGet(roster', id).joinedAt = now
             /\ MapHas(latest', id)
             /\ id \in DOMAIN Snapshot'
             /\ Snapshot'[id].joinedAt = now
             /\ Snapshot'[id].lat = ToNumber(b.lat)
             /\ Snapshot'[id].lng = ToNumber(b.lon)]_vars

\* The only mutation so far is an update that returned 200; its boat is in
\* the snapshot with joinedAt and the position, and its t differs from joinedAt.
C16_Witness ==
  /\ Len(mlog) = 1
  /\ mlog[1].kind = "update" /\ mlog[1].status = "ok"
  /\ "a" \in DOMAIN Snapshot
  /\ Snapshot["a"].joinedAt = StartMs
  /\ Snapshot["a"].lastSeen = JsNum(StartMs - 1000)
  /\ Snapshot["a"].lat = JsNum(10)
  /\ Snapshot["a"].lng = JsNum(20)

(***************************************************************************)
(* Vocabulary of the replay properties.                                    *)
(***************************************************************************)
\* The stored points of a boat that lie in the window of the call.
WindowPts(race, b, from, to) ==
  {log[i] : i \in {j \in Selected(race, from, to) : log[j].boatId = b}}

Consecutive(P, p0, p1) ==
  /\ p0 \in P /\ p1 \in P
  /\ p0.t < p1.t
  /\ ~\E p \in P : p0.t < p.t /\ p.t < p1.t

\* The entries of a frame for a boat.
EntriesOf(fr, b) == {k \in 1..Len(fr.boats) : fr.boats[k].boatId = b}

\* v is the value at ts on the line from (t0, a) to (t1, b).
OnLine(v, a, b, t0, t1, ts) ==
  v.n * (t1 - t0) = (a * (t1 - t0) + (b - a) * (ts - t0)) * v.d

\* This step appends a frame to the response being built.
AppendsFrame == rq.pc = "frames" /\ Len(rq'.frames) = Len(rq.frames) + 1

\* This step returns a response.
Returns == Len(hist') = Len(hist) + 1

(***************************************************************************)
(* C17: in the smoothed replay, a frame whose time ts lies strictly        *)
(* between two consecutive points p0, p1 of a boat among the points of     *)
(* the window gives the boat lat and lon on the line from p0 to p1 at ts;  *)
(* with points (0, 0, 0) and (4000, 4, 4), from = 0, to = 4000 and hz = 1  *)
(* the frame at 2000 has lat = 2 and lon = 2.                              *)
(***************************************************************************)
ScenarioB(h) ==
  /\ h.impl = "smoothed"
  /\ h.args = Args(JsStr("R1"), JsNum(0), JsNum(4000), JsNum(100))
  /\ h.status = 200
  /\ WindowPts("R1", "B1", 0, 4000) =
       { Row("R1", "B1", 0, 0, 0, JsNum(2), JsStr("One")),
         Row("R1", "B1", 4000, 4, 4, JsNum(6), JsNull) }

MidFrame(h) ==
  \E i \in 1..Len(h.frames) :
    /\ h.frames[i].t = 2000
    /\ \E k \in EntriesOf(h.frames[i], "B1") :
         /\ h.frames[i].boats[k].lat = Num(2)
         /\ h.frames[i].boats[k].lon = Num(2)

C17_SmoothedInterpolates ==
  [][ /\ (AppendsFrame /\ rq.impl = "smoothed") =>
           LET fr == rq'.frames[Len(rq'.frames)]
               ts == rq.t
           IN  /\ fr.t = ts
               /\ \A b \in {BoatIds[i] : i \in 1..Len(BoatIds)} :
                    LET P == WindowPts(rq.raceId, b, rq.from, rq.to)
                    IN  \A p0, p1 \in P :
                          (Consecutive(P, p0, p1) /\ p0.t < ts /\ ts < p1.t) =>
                            /\ EntriesOf(fr, b) # {}
                            /\ \A k \in EntriesOf(fr, b) :
                                 /\ OnLine(fr.boats[k].lat, p0.lat, p1.lat, p0.t, p1.t, ts)
                                 /\ OnLine(fr.boats[k].lon, p0.lon, p1.lon, p0.t, p1.t, ts)
      /\ Returns => (ScenarioB(hist'[Len(hist')]) => MidFrame(hist'[Len(hist')])) ]_vars

\* The smoothed replay of the scenario has returned, with the boat at (2, 2)
\* in the frame at 2000 and at (1, 1) in the frame at 1000.
C17_Witness ==
  \E j \in 1..Len(hist) :
    /\ ScenarioB(hist[j])
    /\ MidFrame(hist[j])
    /\ hist[j].stepMs = 1000
    /\ hist[j].frames[2].t = 1000
    /\ hist[j].frames[2].boats[1].lat = Num(1)

(***************************************************************************)
(* C18 (as stated): in a replay over [from, to], a boat whose first stored *)
(* point is at from + 5000 has no entry in any frame earlier than that     *)
(* point, and in the first frame at or after it the boat has the point's   *)
(* lat and lon.                                                            *)
(***************************************************************************)
C18_AsStated ==
  [][Returns =>
       LET h == hist'[Len(hist')]
           from == ToNumber(h.args.from).n
           to == ToNumber(h.args.to).n
       IN  h.status = 200 =>
             \A b \in {BoatIds[i] : i \in 1..Len(BoatIds)} :
               \A p \in WindowPts(h.args.raceId.s, b, from, to) :
                 ( /\ p.t = from + 5000
                   /\ \A q \in WindowPts(h.args.raceId.s, b, from, to) : q.t >= p.t ) =>
                   \A i \in 1..Len(h.frames) :
                     /\ h.frames[i].t < p.t => EntriesOf(h.frames[i], b) = {}
                     /\ (h.frames[i].t >= p.t /\ (i = 1 \/ h.frames[i - 1].t < p.t)) =>
                          /\ EntriesOf(h.frames[i], b) # {}
                          /\ \A k \in EntriesOf(h.frames[i], b) :
                               /\ h.frames[i].boats[k].lat = Num(p.lat)
                               /\ h.frames[i].boats[k].lon = Num(p.lon)]_vars

(***************************************************************************)
(* C19 (as stated): two replay calls of one handler with the same (raceId, *)
(* from, to, hz) over the unchanged table return the same frames, and two  *)
(* boats whose first points in the window have the same time are listed    *)
(* in every frame in ascending order of boatId.                            *)
(***************************************************************************)
FirstT(h, b) ==
  LET P == WindowPts(h.args.raceId.s, b, ToNumber(h.args.from).n, ToNumber(h.args.to).n)
  IN  IF P = {} THEN -1 ELSE (CHOOSE p \in P : \A q \in P : p.t <= q.t).t

C19_AsStated ==
  [][Returns =>
       LET h == hist'[Len(hist')]
       IN  h.status = 200 =>
             /\ \A j \in 1..Len(hist) :
                  (hist[j].impl = h.impl /\ hist[j].args = h.args /\ hist[j].status = 200) =>
                    hist[j].frames = h.frames
             /\ \A i \in 1..Len(h.frames) : \A k1, k2 \in 1..Len(h.frames[i].boats) :
                  ( /\ k1 < k2
                    /\ FirstT(h, h.frames[i].boats[k1].boatId) =
                         FirstT(h, h.frames[i].boats[k2].boatId) ) =>
                    BoatRank(h.frames[i].boats[k1].boatId) <
                      BoatRank(h.frames[i].boats[k2].boatId)]_vars

(***************************************************************************)
(* C20 (as stated): for every requested hz, the replay uses hz clamped     *)
(* into [0.1, 10] and stepMs = max(50, round(1000 / hz)); a requested hz   *)
(* of 0.5 gives stepMs = 2000.                                             *)
(***************************************************************************)
C20_AsStated ==
  [][(rq.pc = "idle" /\ rq'.pc = "query" /\ rq'.hzRaw.k = "num") =>
       /\ rq'.hz = Max(10, Min(1000, rq'.hzRaw.n))
       /\ rq'.stepMs = Max(50, RoundDiv(100000, rq'.hz))
       /\ rq'.hzRaw = JsNum(50) => rq'.stepMs = 2000]_vars

(***************************************************************************)
(* C21: a replay request with to <= from, with no raceId, with a window    *)
(* wider than the handler's maxWindowMs, or whose read of the table fails, *)
(* is answered with an error that carries no frame, and never reaches the  *)
(* frame loop; a response that carries frames carries all the frames of    *)
(* the window.                                                             *)
(***************************************************************************)
\* The request is one the claim says is refused.
Refused(impl, a) ==
  \/ ~Truthy(a.raceId)
  \/ (a.from.k = "num" /\ a.to.k = "num" /\ a.to.n <= a.from.n)
  \/ (impl = "smoothed" /\ a.from.k = "num" /\ a.to.k = "num"
        /\ a.to.n - a.from.n > maxWindowMs)

\* The frames of h are those of the whole window, one per step.
AllFrames(h) ==
  LET from == h.args.from.n
      to == h.args.to.n
  IN  /\ Len(h.frames) = ((to - from) \div h.stepMs) + 1
      /\ \A i \in 1..Len(h.frames) : h.frames[i].t = from + (i - 1) * h.stepMs

RECURSIVE RowsOfBoat(_, _)
RowsOfBoat(rows, b) ==
  IF rows = <<>> THEN <<>>
  ELSE IF Head(rows).boatId = b THEN <<Head(rows)>> \o RowsOfBoat(Tail(rows), b)
  ELSE RowsOfBoat(Tail(rows), b)

\* The rows of the accepted /track calls numbered 1..n, in the order in
\* which the calls arrived.
RECURSIVE AcceptedRows(_)
AcceptedRows(n) ==
  IF n = 0 THEN <<>>
  ELSE LET A == {i \in 1..Len(th) : th[i].n = n /\ th[i].status = 200}
       IN  AcceptedRows(n - 1) \o (IF A = {} THEN <<>> ELSE th[CHOOSE i \in A : TRUE].rows)

\* No write of a /track call is outstanding.
NoTrackWritePending == \A s \in TrackSlots : tk[s].pc = "idle"

(***************************************************************************)
(* C22 (as stated): every accepted update appends exactly one point to the *)
(* track log, and the points of each boat lie in the log in the order in   *)
(* which its updates arrived: once no write is outstanding, the rows of    *)
(* each boat in the table are the points of the accepted calls, in arrival *)
(* order and in the order of each batch.                                   *)
(***************************************************************************)
C22_AsStated ==
  NoTrackWritePending =>
    \A b \in {BoatIds[i] : i \in 1..Len(BoatIds)} :
      RowsOfBoat(log, b) = RowsOfBoat(AcceptedRows(tn), b)

(***************************************************************************)
(* C23 (as stated): the track log only grows: every step leaves each row   *)
(* of the table in its place and unchanged, also when a report has the     *)
(* (raceId, boatId, t) of a stored row.                                    *)
(***************************************************************************)
C23_AsStated ==
  [][ /\ Len(log') >= Len(log)
      /\ \A i \in 1..Len(log) : log'[i] = log[i] ]_vars

(***************************************************************************)
(* C24 (as stated): the gateway delivers every update and subscribe for    *)
(* raceId r to the object of r only; a step taken for race r1 leaves the   *)
(* roster, telemetry, sockets and storage of every other race unchanged;   *)
(* and the objects of different races share no mutable state: a step       *)
(* taken for one race does not undo what the object of another race wrote. *)
(***************************************************************************)
\* The race for which this step runs, "" when it runs for none.
StepRace ==
  IF \E g \in GwSlots : gq'[g] # gq[g]
  THEN LET g == CHOOSE x \in GwSlots : gq'[x] # gq[x]
       IN  IF gq[g].pc = "idle" THEN gq'[g].race ELSE gq[g].race
  ELSE IF Len(gh') > Len(gh) THEN gh'[Len(gh')].race ELSE ""

C24_AsStated ==
  [][ /\ \A r \in Races : r # StepRace => ch'[r] = ch[r]
      /\ Len(gh') > Len(gh) =>
           LET a == gh'[Len(gh')]
           IN  /\ (a.kind = "update" /\ a.status = 200) =>
                    /\ MapHas(ch'[a.race].roster, a.boat)
                    /\ MapHas(ch'[a.race].latest, a.boat)
               /\ (a.kind = "ws" /\ a.status = 101) => a.n \in ch'[a.race].sockets
      /\ \A i \in 1..Len(kv) :
           kv[i] # StepRace => \E j \in 1..Len(kv') : kv'[j] = kv[i] ]_vars

(***************************************************************************)
(* C25: removing a subscriber is idempotent (deleting a socket that is not *)
(* registered changes nothing); a socket that has been removed receives    *)
(* nothing more, whatever join or update follows; a removal leaves every   *)
(* call in progress where it was, and a call whose broadcast meets a       *)
(* closed socket, or during which a socket closed, still returns 200       *)
(* unless its own write fails.                                             *)
(***************************************************************************)
\* A registered socket is removed in this step by its listener or by the
\* broadcast of a call, the object staying in memory.
Removes(s) == s \in sockets /\ s \notin sockets' /\ loaded'

C25_UnsubscribeIdempotent ==
  [][ /\ \A s \in Subs :
           /\ SocketsDelete(SocketsDelete(sockets, s), s) = SocketsDelete(sockets, s)
           /\ s \notin sockets => SocketsDelete(sockets, s) = sockets
      /\ \A s \in 1..subs : s \notin sockets => (inbox'[s] = inbox[s] /\ s \notin sockets')
      /\ \A s \in Subs : \A r \in Reqs :
           (Removes(s) /\ req[r].pc \notin {"idle", "persist"}) =>
             /\ req'[r].pc = req[r].pc
             /\ req'[r].body = req[r].body
      /\ \A r \in Reqs :
           ReturnsError(r) => (sockets' = sockets /\ inbox' = inbox /\ storage' = storage)
      /\ \A r \in Reqs :
           (req[r].pc = "persist" /\ req'[r].pc = "idle"
              /\ (sockets' # sockets \/ req[r].closed # {})
              /\ storage' = [has |-> TRUE, roster |-> req[r].payload.roster,
                             latest |-> req[r].payload.latest]
              /\ storage' # storage) =>
             (last' = 200 /\ mlog'[req[r].m].status = "ok") ]_vars

\* Socket 1 closed while an update was in progress; the update has returned
\* 200, and socket 2, registered too, received its event while socket 1 did
\* not.
C25_Witness ==
  /\ Len(mlog) = 1
  /\ mlog[1].kind = "update" /\ mlog[1].status = "ok"
  /\ mlog[1].closed = {1} /\ mlog[1].dropped = {}
  /\ sockets = {2}
  /\ EventsOf(2, 1) # {}
  /\ EventsOf(1, 1) = {}

(***************************************************************************)
(* C26: the in-memory effect of a join or update is applied in one step:   *)
(* the maps in memory, the persisted snapshot and every full payload sent  *)
(* to a socket show each boat's telemetry together with the lastSeen of    *)
(* the same sample, and every change of the maps is the whole effect of    *)
(* one call (or a load, or an eviction), never a mixture of two.           *)
(***************************************************************************)
\* Every sample of lat has its roster entry in ros, with the sample's t as lastSeen.
Paired(ros, lat) ==
  \A b \in MapKeys(lat) : MapHas(ros, b) /\ MapGet(ros, b).lastSeen = MapGet(lat, b).t

\* Every boat of a full payload that has telemetry has the sample's t as lastSeen.
PairedViews(boats) ==
  \A b \in DOMAIN boats : boats[b].timestamp # JsUndef => boats[b].lastSeen = boats[b].timestamp

\* This step applies to the maps the whole effect of the call in slot r.
WholeEffect(r) ==
  /\ req[r].pc \in {"idxget", "idxput"}
  /\ req'[r].pc = "persist"
  /\ roster' = IF req[r].kind = "join" THEN JoinRoster(roster, req[r].body, now)
               ELSE UpdateRoster(roster, req[r].body, now)
  /\ latest' = IF req[r].kind = "join" THEN latest
               ELSE UpdateLatest(latest, req[r].body, now)
  /\ \A q \in Reqs \ {r} : req'[q] = req[q]

C26_MutationsAtomic ==
  [][ /\ Paired(roster', latest')
      /\ storage'.has => Paired(MapFromEntries(storage'.roster), MapFromEntries(storage'.latest))
      /\ \A s \in Subs : \A i \in 1..Len(inbox'[s]) :
           inbox'[s][i].ev.type = "full" => PairedViews(inbox'[s][i].ev.boats)
      /\ (roster' # roster \/ latest' # latest) =>
           \/ \E r \in Reqs : WholeEffect(r)
           \/ ~loaded /\ loaded' /\ roster' = LoadedRoster(storage, roster)
                /\ latest' = LoadedLatest(storage, latest)
           \/ loaded /\ ~loaded' /\ roster' = <<>> /\ latest' = <<>> ]_vars

\* Two updates whose handling overlapped (the second arrived before the
\* first returned) have both returned 200, and both boats are in the maps.
C26_Witness ==
  /\ Len(mlog) = 2
  /\ mlog[1].kind = "update" /\ mlog[1].status = "ok"
  /\ mlog[2].kind = "update" /\ mlog[2].status = "ok" /\ mlog[2].after = {}
  /\ MapKeys(latest) = {"a", "b"}
  /\ MapKeys(roster) = {"a", "b"}
  /\ Paired(roster, latest)

(***************************************************************************)
(* C27: the OwnTracks adapter forwards t in epoch milliseconds.            *)
(***************************************************************************)
\* The instant a report names, in milliseconds: the time field the adapter
\* reads (tst, else t), taken as seconds when it is below 1e12, and the clock
\* when the report has no numeric time.
OtInstantMs(b, clock) ==
  LET n == ToNumber(Nullish(b.tst, Nullish(b.t, JsUndef)))
  IN  IF n.k # "num" THEN clock
      ELSE IF n.n < 1000000000 THEN n.n * 1000 ELSE n.n

OtForwarded == ot.pc \in {"forwarded", "stored", "done"} /\ ot.payload # JsNull

OtStampedNow == OtInstantMs(ot.report, ot.clock) = ot.clock

\* C27: every update record the OwnTracks adapter forwards carries t in epoch
\* milliseconds, whether the device sent seconds or milliseconds, and a
\* report stamped with the current time is shown live = true in the snapshot
\* taken right after it is accepted.
C27_AsStated ==
  /\ OtForwarded => ot.payload.t = JsNum(OtInstantMs(ot.report, ot.clock))
  /\ (ot.pc = "done" /\ ot.status = 200 /\ OtStampedNow) => ot.live

(***************************************************************************)
(* C28: a successful join leaves the telemetry cache alone, sends one      *)
(* full-state event to every registered socket and answers the number of   *)
(* distinct boatIds of the roster.                                         *)
(***************************************************************************)
\* A step of the /join handler of call r, from request.text() to its return.
JoinHandlerStep(r) ==
  /\ req[r].kind = "join"
  /\ req[r].pc \in {"text", "idxget", "idxput", "persist"}
  /\ req'[r] # req[r]

JoinReturns200(r) ==
  /\ req[r].kind = "join"
  /\ req[r].pc = "persist"
  /\ req'[r].pc = "idle"
  /\ last' = 200

\* C28: no step of a join changes the telemetry cache of any boat; when the
\* join returns 200, every registered socket has been sent exactly one event,
\* the full state of the channel at that instant (a socket whose send threw
\* is the only one that does not receive it, and it is dropped), no other
\* socket receives anything, and the boatsCount answered is the number of
\* distinct boatIds in the roster, the joined boat among them.
C28_JoinFrameAndAnswer ==
  [][\A r \in Reqs :
       /\ JoinHandlerStep(r) => latest' = latest
       /\ JoinReturns200(r) =>
            LET m == req[r].m
                full == [ev |-> [type |-> "full", now |-> now,
                                 boats |-> boatsView(roster', latest', now)],
                         m |-> m]
            IN  /\ \A s \in sockets \ broken : inbox'[s] = Append(inbox[s], full)
                /\ \A s \in sockets \cap broken :
                     s \in mlog'[m].dropped /\ inbox'[s] = inbox[s]
                /\ \A s \in Subs \ sockets : inbox'[s] = inbox[s]
                /\ mlog'[m].boatsCount = Cardinality(MapKeys(roster'))
                /\ StrOrEmpty(req[r].body.boatId) \in MapKeys(roster')]_vars

\* A join returned 200 with boatsCount 2 while another boat had a cached
\* sample: the sample is still cached, and a registered socket received, as
\* its last message, the full state with both boats.
C28_Witness ==
  \E s \in sockets :
    LET k == Len(mlog)
        e == inbox[s][Len(inbox[s])]
    IN  /\ k >= 2
        /\ mlog[k].kind = "join" /\ mlog[k].status = "ok"
        /\ mlog[k].boatsCount = 2
        /\ last = 200
        /\ \A r \in Reqs : req[r].pc = "idle"
        /\ Len(latest) = 1
        /\ ~MapHas(latest, mlog[k].boat)
        /\ inbox[s] # <<>>
        /\ e.m = k
        /\ e.ev.type = "full"
        /\ DOMAIN e.ev.boats = MapKeys(roster)
        /\ \E b \in DOMAIN e.ev.boats : e.ev.boats[b].lat.k = "num"

(***************************************************************************)
(* C29: roster entries are never removed.                                  *)
(***************************************************************************)
\* The sizes answered by the joins that returned 200, in the order of return.
JoinCountsNeverDecrease ==
  \A i, j \in 1..Len(mlog) :
    (i < j /\ mlog[i].kind = "join" /\ mlog[i].status = "ok"
           /\ mlog[j].kind = "join" /\ mlog[j].status = "ok")
      => mlog[i].boatsCount <= mlog[j].boatsCount

\* C29 (as stated): the set of boatIds of the roster only grows across join,
\* update, subscribe, snapshot and reload, so whenever the channel has its
\* state in memory, the boat of every mutation applied so far is in the
\* roster; and the sizes answered by successive joins never decrease.
C29_AsStated ==
  /\ loaded => \A k \in 1..Len(mlog) : mlog[k].boat \in MapKeys(roster)
  /\ JoinCountsNeverDecrease

\* C29 (amended): no step of a join, update, subscribe or snapshot removes a
\* boatId from the roster in memory, and none removes one from the stored
\* roster; a reload gives the stored roster, so in memory the roster holds
\* every stored boatId and the boat of every call answered 200; the sizes
\* answered by successive joins never decrease.
C29_RosterOnlyGrows ==
  [][/\ (loaded /\ loaded') => MapKeys(roster) \subseteq MapKeys(roster')
     /\ MapKeys(storage.roster) \subseteq MapKeys(storage'.roster)
     /\ loaded' =>
          /\ MapKeys(storage'.roster) \subseteq MapKeys(roster')
          /\ \A k \in 1..Len(mlog') :
               mlog'[k].status = "ok" => mlog'[k].boat \in MapKeys(roster')
     /\ ~loaded /\ loaded' => MapKeys(roster') = MapKeys(storage.roster)
     /\ JoinCountsNeverDecrease']_vars

\* A call for one boat returned 200, the durable write of a later call for
\* another boat failed, and after an eviction the reloaded roster holds the
\* first boat and not the second.
C29_Witness ==
  /\ Len(mlog) = 2
  /\ mlog[1].status = "ok"
  /\ mlog[2].status = "failed"
  /\ mlog[1].boat # mlog[2].boat
  /\ evicts >= 1
  /\ loaded
  /\ MapKeys(roster) = {mlog[1].boat}

(***************************************************************************)
(* C30: a full view lists every roster boat once, with the fields of its   *)
(* sample when it has one and without them when it has only joined.        *)
(***************************************************************************)
\* v is the full view of the maps ros and lat.
FullViewOk(v, ros, lat) ==
  /\ DOMAIN v = MapKeys(ros)
  /\ \A b \in DOMAIN v :
       /\ v[b].boatId = b
       /\ MapHas(lat, b) =>
            LET smp == MapGet(lat, b)
            IN  /\ v[b].lat = smp.lat /\ v[b].lat.k = "num"
                /\ v[b].lng = smp.lon /\ v[b].lng.k = "num"
                /\ v[b].timestamp = smp.t /\ v[b].timestamp.k = "num"
                /\ v[b].speed = smp.sog
                /\ v[b].heading = Nullish(smp.heading, smp.cog)
       /\ ~MapHas(lat, b) =>
            /\ v[b].lat = JsUndef /\ v[b].lng = JsUndef /\ v[b].timestamp = JsUndef
            /\ v[b].speed = JsUndef /\ v[b].heading = JsUndef
       /\ (~MapHas(lat, b) /\ MapGet(ros, b).lastSeen = JsUndef) => v[b].live = FALSE

\* GET /boats is answered in this step: at once when the state is loaded,
\* else when loadOnce() returns.
SnapshotAnswered ==
  \/ calls' = calls + 1 /\ req' = req /\ last' = 200
  \/ \E r \in Reqs : req[r].pc = "load" /\ req[r].kind = "boats" /\ req'[r].pc = "idle"

\* C30: the view a snapshot returns, and the view of every full event a socket
\* receives (at registration or from a join), has exactly the roster's boatIds
\* as its boat set, carries for each boat the fields of its cached sample when
\* there is one and none of them when there is none, and lists a boat that
\* has joined and never reported with live = false.
C30_FullViewListsRoster ==
  [][/\ SnapshotAnswered =>
          FullViewOk(boatsView(roster', latest', now), roster', latest')
     /\ \A s \in Subs :
          (inbox'[s] # inbox[s] /\ inbox'[s][Len(inbox'[s])].ev.type = "full") =>
            FullViewOk(inbox'[s][Len(inbox'[s])].ev.boats, roster', latest')]_vars

\* A socket received a full view with two boats, one with the position of
\* its sample and one that has only joined, without position and not live.
C30_Witness ==
  \E s \in Subs : \E i \in 1..Len(inbox[s]) : \E a, b \in MapKeys(roster) :
    LET v == inbox[s][i].ev.boats
    IN  /\ inbox[s][i].ev.type = "full"
        /\ a # b
        /\ DOMAIN v = {a, b}
        /\ v[a].lat.k = "num" /\ v[a].lng.k = "num" /\ v[a].lastSeen.k = "num"
        /\ v[b].lat = JsUndef /\ v[b].lastSeen = JsUndef /\ v[b].live = FALSE
        /\ v[b].joinedAt = MapGet(roster, b).joinedAt

(***************************************************************************)
(* C31: the list of GET /boats has the live boats first and, among boats   *)
(* with the same live flag, the names in ascending order.                  *)
(***************************************************************************)
ListInOrder(arr) ==
  \A i, j \in 1..Len(arr) :
    i < j =>
      /\ ~(~arr[i].live /\ arr[j].live)
      /\ arr[i].live = arr[j].live => localeCompare(arr[i].boatName, arr[j].boatName) <= 0

\* C31: whenever GET /boats is answered, no stale boat of its list precedes
\* a live one, boats with the same live flag are in ascending order of their
\* names, and the list holds each roster boat once.
C31_ListLiveFirstThenByName ==
  [][SnapshotAnswered =>
       LET arr == boatsViewArray(roster', latest', now)
       IN  /\ ListInOrder(arr)
           /\ Len(arr) = Len(roster')
           /\ {arr[i].boatId : i \in 1..Len(arr)} = MapKeys(roster')]_vars

\* GET /boats was answered (the one call that applied no mutation returned
\* 200) while the roster held a stale boat set before a live one: the list
\* has them the other way round.
C31_Witness ==
  LET arr == boatsViewArray(roster, latest, now)
  IN  /\ Len(roster) = 2
      /\ last = 200
      /\ \A r \in Reqs : req[r].pc = "idle"
      /\ calls = Len(mlog) + 1
      /\ ~boatsView(roster, latest, now)[roster[1][1]].live
      /\ boatsView(roster, latest, now)[roster[2][1]].live
      /\ arr[1].boatId = roster[2][1]
      /\ arr[2].boatId = roster[1][1]

(***************************************************************************)
(* C32: the frame loop of the smoothed /replay handler ends, with          *)
(* floor((to - from) / stepMs) + 1 frames at from, from + stepMs, ...      *)
(***************************************************************************)
\* The frames fs are at from, from + stepMs, from + 2 * stepMs, ..., none
\* after to.
FramesOnGrid(fs, from, to, stepMs) ==
  /\ \A k \in 1..Len(fs) : fs[k].t = from + (k - 1) * stepMs /\ fs[k].t <= to
  /\ \A k \in 1..(Len(fs) - 1) : fs[k].t < fs[k + 1].t

SmoothedLoopRuns == rq.pc = "frames" /\ rq.impl = "smoothed"

\* The turns the loop has still to take: the variant of  for (t = from;
\* t <= to; t += stepMs).
TurnsLeft == IF rq.t > rq.to THEN 0 ELSE ((rq.to - rq.t) \div rq.stepMs) + 1

\* C32: for every accepted input of the smoothed handler the step is positive
\* and the frames built so far are at from, from + stepMs, ...; every turn
\* of the loop adds one frame and lowers the number of turns left, and with
\* none left the handler returns, so the loop ends; the answer has exactly
\* floor((to - from) / stepMs) + 1 frames, strictly increasing in time and
\* none after to.
C32_FrameLoopTerminates ==
  [][/\ SmoothedLoopRuns' =>
          /\ rq'.stepMs > 0
          /\ FramesOnGrid(rq'.frames, rq'.from, rq'.to, rq'.stepMs)
          /\ rq'.t = rq'.from + Len(rq'.frames) * rq'.stepMs
     /\ (SmoothedLoopRuns /\ rq' # rq) =>
          IF TurnsLeft > 0
          THEN /\ rq'.pc = "frames"
               /\ Len(rq'.frames) = Len(rq.frames) + 1
               /\ TurnsLeft' = TurnsLeft - 1
          ELSE /\ rq'.pc = "idle"
               /\ hist'[Len(hist')].status = 200
               /\ hist'[Len(hist')].frames = rq.frames
     /\ \A i \in 1..Len(hist') :
          (hist'[i].impl = "smoothed" /\ hist'[i].status = 200) =>
            LET from == ToNumber(hist'[i].args.from).n
                to == ToNumber(hist'[i].args.to).n
            IN  /\ Len(hist'[i].frames) = ((to - from) \div hist'[i].stepMs) + 1
                /\ FramesOnGrid(hist'[i].frames, from, to, hist'[i].stepMs)]_vars

\* The smoothed handler answered a window of 4000 ms at hz = 7, where the
\* step of 142 ms does not divide the window: 29 frames, the last at 3976.
C32_Witness ==
  \E i \in 1..Len(hist) :
    /\ hist[i].impl = "smoothed" /\ hist[i].status = 200
    /\ hist[i].stepMs = 142
    /\ ToNumber(hist[i].args.to).n = 4000
    /\ Len(hist[i].frames) = 29
    /\ hist[i].frames[29].t = 3976

(***************************************************************************)
(* C33: the cursors of the smoothed replay.                                *)
(***************************************************************************)
\* Interpolation is used for the points pts at the frame time ts.
Interpolates(pts, ts) == pts[1].t < ts /\ ts < pts[Len(pts)].t

\* The cursors (counted from 0) move forward only and stay inside the lists.
CursorsForwardInBounds ==
  LET bb == byBoat(rq.rows)
  IN  \A k \in 1..Len(bb) :
        /\ rq'.idx[k][1] = bb[k][1]
        /\ rq'.idx[k][2] >= rq.idx[k][2]
        /\ rq'.idx[k][2] >= 0
        /\ rq'.idx[k][2] < Len(bb[k][2])

\* C33 (as stated): in every turn of the frame loop each boat's cursor does
\* not decrease and stays within the boat's point list, and where the frame
\* interpolates, the cursor's point p0 is the last point with time <= ts and
\* p1 is the first point with time > ts.
C33_AsStated ==
  [][(AppendsFrame /\ rq.impl = "smoothed") =>
       LET bb == byBoat(rq.rows)
           ts == rq.t
       IN  /\ CursorsForwardInBounds
           /\ \A k \in 1..Len(bb) :
                LET pts == bb[k][2]
                    i == rq'.idx[k][2]
                IN  Interpolates(pts, ts) =>
                      /\ pts[i + 1].t <= ts
                      /\ \A j \in 1..Len(pts) : pts[j].t <= ts => j <= i + 1
                      /\ pts[i + 2].t > ts
                      /\ \A j \in 1..Len(pts) : pts[j].t > ts => j >= i + 2]_vars

(***************************************************************************)
(* C34: in a replay that answers with frames, every frame at or after a    *)
(* boat's last stored point of the window has that point's lat, lon, sog,  *)
(* cog and name for the boat; a frame has at most one entry per boat; and  *)
(* a boat with no stored point in [from, to] has no entry in any frame.    *)
(***************************************************************************)
\* The values a and b are the same; a value that is not there is null in
\* the table and null or undefined in a frame.
SameValue(a, b) == a = b \/ ({a, b} \subseteq {JsNull, JsUndef})

\* The entry e of a frame carries the values of the stored point p.
CarriesPoint(e, p) ==
  /\ e.lat = Num(p.lat)
  /\ e.lon = Num(p.lon)
  /\ SameValue(e.sog, OutNum(p.sog))
  /\ SameValue(e.cog, OutNum(p.cog))
  /\ SameValue(e.name, p.name)

\* The last stored points of P: those that no point of P follows.
LastOf(P) == {p \in P : \A q \in P : q.t <= p.t}

C34_LastPointHeldOneEntryPerBoat ==
  [][Returns =>
       LET h == hist'[Len(hist')]
       IN  h.status = 200 =>
             \A b \in {BoatIds[i] : i \in 1..Len(BoatIds)} :
               LET P == WindowPts(h.args.raceId.s, b, ToNumber(h.args.from).n,
                                  ToNumber(h.args.to).n)
               IN  \A i \in 1..Len(h.frames) :
                     /\ Cardinality(EntriesOf(h.frames[i], b)) <= 1
                     /\ P = {} => EntriesOf(h.frames[i], b) = {}
                     /\ \A p \in LastOf(P) :
                          h.frames[i].t >= p.t =>
                            /\ EntriesOf(h.frames[i], b) # {}
                            /\ \A k \in EntriesOf(h.frames[i], b) :
                                 CarriesPoint(h.frames[i].boats[k], p)]_vars

\* A smoothed replay of 0..6000 has answered over the table that holds B2
\* at 5000 only and B1 at 0 and 6000: the frame at 6000 has one entry for
\* each boat, with B2 at its last point (5, 50) and B1 at its last (7, 7).
C34_Witness ==
  \E j \in 1..Len(hist) :
    LET h == hist[j]
    IN  /\ h.impl = "smoothed"
        /\ h.status = 200
        /\ WindowPts("R1", "B2", 0, 6000) =
             {Row("R1", "B2", 5000, 5, 50, JsNull, JsNull)}
        /\ \E i \in 1..Len(h.frames) :
             /\ h.frames[i].t = 6000
             /\ Len(h.frames[i].boats) = 2
             /\ \E k \in EntriesOf(h.frames[i], "B2") :
                  CarriesPoint(h.frames[i].boats[k],
                               Row("R1", "B2", 5000, 5, 50, JsNull, JsNull))
             /\ \E k \in EntriesOf(h.frames[i], "B1") :
                  CarriesPoint(h.frames[i].boats[k],
                               Row("R1", "B1", 6000, 7, 7, JsNull, JsNull))

(***************************************************************************)
(* C35: GET /boats, /ws/live and /replay change no race data.  A step of   *)
(* a snapshot or subscribe request leaves the persisted snapshot, the race *)
(* index and the Track Log as they are, records no mutation, and leaves    *)
(* the in-memory roster and telemetry as they are or, on a new instance,   *)
(* as loadOnce() restores them from the persisted snapshot; a snapshot     *)
(* leaves the subscriber set unchanged and a subscribe only adds to it.    *)
(* No step of a replay changes the Track Log.                              *)
(***************************************************************************)
\* A request that fetch() answers without another await returns in this step.
ReadRequestStep ==
  \/ loaded /\ calls' = calls + 1 /\ req' = req
  \/ \E r \in Reqs : /\ req[r].pc = "load"
                     /\ req[r].kind \in {"boats", "ws"}
                     /\ req'[r].pc = "idle"

\* A step of a /replay call.
ReplayStep == rq' # rq \/ hist' # hist

Finished == {m \in 1..Len(mlog) : mlog[m].status \in {"ok", "failed"}}

\* The effect of mutation m is in the maps or entry lists ros and lat: the
\* boat is in the roster and, for an update, has a telemetry sample.
EffectIn(m, ros, lat) ==
  /\ mlog[m].boat \in MapKeys(ros)
  /\ mlog[m].kind = "update" => mlog[m].boat \in MapKeys(lat)

\* C36 (as stated): when the calls that reached a new instance have all
\* returned, the effect of each of them is in memory and in the persisted
\* snapshot.
C36_AsStated ==
  (evicts = 0 /\ loaded /\ \A r \in Reqs : req[r].pc = "idle") =>
    \A m \in Finished :
      /\ EffectIn(m, roster, latest)
      /\ EffectIn(m, storage.roster, storage.latest)

\* C36 (amended): loadOnce() assigns the loaded state only while no other
\* call is in progress and nothing has been written to the maps of the
\* instance, so it never replaces a mutation; a step that is not an
\* eviction removes no boat from the in-memory roster or telemetry; in
\* every state the effect of every call that has returned 200 is in the
\* persisted snapshot and, when the instance has loaded, in memory; and
\* while no eviction has happened the effect of every call that has mutated
\* the maps is in memory.
C36_LoadNeverReplacesMutation ==
  [][ /\ \A r \in Reqs :
           LoadStep(r) =>
             /\ ~loaded /\ loaded'
             /\ \A q \in Reqs \ {r} : req[q].pc = "idle"
             /\ roster = <<>> /\ latest = <<>>
      /\ evicts' = evicts =>
           /\ MapKeys(roster) \subseteq MapKeys(roster')
           /\ MapKeys(latest) \subseteq MapKeys(latest')
      /\ \A m \in 1..Len(mlog') :
           /\ mlog'[m].status = "ok" =>
                /\ EffectIn(m, storage.roster, storage.latest)'
                /\ loaded' => EffectIn(m, roster, latest)'
           /\ evicts' = 0 => EffectIn(m, roster, latest)' ]_vars

\* Two calls for different boats were in progress together on the first
\* instance of the object, the second delivered as soon as the load awaited
\* for the first had finished; both have returned 200 and both boats are in
\* memory and in the persisted snapshot.
C36_Witness ==
  /\ evicts = 0
  /\ calls = 2
  /\ loaded
  /\ \A r \in Reqs : req[r].pc = "idle"
  /\ Len(mlog) = 2
  /\ mlog[1].status = "ok" /\ mlog[2].status = "ok"
  /\ 1 \notin mlog[2].after
  /\ mlog[1].boat # mlog[2].boat
  /\ \A m \in {1, 2} :
       /\ EffectIn(m, roster, latest)
       /\ EffectIn(m, storage.roster, storage.latest)

(***************************************************************************)
(* C37 (as stated): when an update returns 200, the live flag of the       *)
(* incremental event it broadcasts equals the live flag that boatsView()   *)
(* computes for the boat at that instant; an update whose t is more than   *)
(* LIVE_MS before the clock is not announced as live.                      *)
(***************************************************************************)
C37_AsStated ==
  [][\A r \in Reqs :
       (ReturnsOk(r) /\ req[r].kind = "update") =>
         LET b == req[r].view.boatId
         IN  /\ req[r].view.live = boatsView(roster', latest', now')[b].live
             /\ (now' - req[r].view.timestamp.n > LIVE_MS) => ~req[r].view.live]_vars

(***************************************************************************)
(* C38 (as stated): once an update for race r has returned 200, r is in    *)
(* the race index "races:index" and stays in it, also when the first       *)
(* updates of two races run concurrently; no raceId is in the index twice. *)
(***************************************************************************)
\* The races of the index.
Indexed == {kv[i] : i \in 1..Len(kv)}

C38_AsStated ==
  /\ \A i \in 1..Len(gh) :
       (gh[i].kind = "update" /\ gh[i].status = 200) => gh[i].race \in Indexed
  /\ \A i, j \in 1..Len(kv) : kv[i] = kv[j] => i = j

(***************************************************************************)
(* C39 (as stated): in the live page, the close event of a socket that the *)
(* client closed itself (loadRace's disconnectLive, or connectLive         *)
(* replacing the socket) never schedules a reconnect; at most one          *)
(* reconnect timer is pending at any time; and once a race has been        *)
(* loaded, with the server accepting every connection, the client          *)
(* eventually holds one open socket and keeps it.                          *)
(***************************************************************************)
\* The client holds one open socket, no other socket exists, nothing is
\* pending.
Settled ==
  /\ cl.ws # 0
  /\ cl.st[cl.ws].state = "open"
  /\ \A s \in SockIds \ {cl.ws} : cl.st[s].state = "none"
  /\ cl.timers = 0
  /\ cl.courses = 0

C39_AsStated ==
  /\ [](cl.cause # "purpose")
  /\ [](cl.timers <= 1)
  /\ <>[](cl.loads = 0 \/ Settled)

(***************************************************************************)
(* C40: the step of an accepted update for boat b that writes the maps     *)
(* leaves the roster entry and the telemetry sample of every other boat    *)
(* unchanged, adds or removes no other boat, and, when b already had a     *)
(* roster entry, leaves b's boatName, nation and joinedAt unchanged; and   *)
(* in every state a boat with a telemetry sample has a roster entry whose  *)
(* lastSeen is the sample's t, in memory and in the persisted snapshot.    *)
(***************************************************************************)
\* In the maps or entry lists ros and lat, every boat with a sample has a
\* roster entry whose lastSeen is the sample's t.
LastSeenIsSampleT(ros, lat) ==
  \A b \in MapKeys(lat) :
    /\ b \in MapKeys(ros)
    /\ MapGet(ros, b).lastSeen = MapGet(lat, b).t

C40_UpdateTouchesOnlyItsBoat ==
  [][ /\ \A r \in Reqs :
           (MutateStep(r) /\ req[r].kind = "update") =>
             LET b == ToStr(req[r].body.boatId)
             IN  /\ MapKeys(roster') = MapKeys(roster) \cup {b}
                 /\ MapKeys(latest') = MapKeys(latest) \cup {b}
                 /\ \A c \in MapKeys(roster) \ {b} : MapGet(roster', c) = MapGet(roster, c)
                 /\ \A c \in MapKeys(latest) \ {b} : MapGet(latest', c) = MapGet(latest, c)
                 /\ b \in MapKeys(roster) =>
                      /\ MapGet(roster', b).boatName = MapGet(roster, b).boatName
                      /\ MapGet(roster', b).nation = MapGet(roster, b).nation
                      /\ MapGet(roster', b).joinedAt = MapGet(roster, b).joinedAt
      /\ LastSeenIsSampleT(roster, latest)'
      /\ LastSeenIsSampleT(storage.roster, storage.latest)' ]_vars

\* Boat a, which had joined as "Alpha" of AUS, has been updated with a
\* sample one second older than the clock and has kept its name, nation and
\* joinedAt; boat b of the other update is in the maps as well.
C40_Witness ==
  /\ \A r \in Reqs : req[r].pc = "idle"
  /\ MapKeys(roster) = {"a", "b"}
  /\ MapKeys(latest) = {"a", "b"}
  /\ MapGet(roster, "a").boatName = "Alpha"
  /\ MapGet(roster, "a").nation = JsStr("AUS")
  /\ MapGet(roster, "a").joinedAt = StartMs
  /\ now > StartMs
  /\ MapGet(latest, "a").t = JsNum(StartMs - 1000)
  /\ MapGet(roster, "a").lastSeen = JsNum(StartMs - 1000)
  /\ MapGet(roster, "b").lastSeen = MapGet(latest, "b").t

====
